---- MODULE Spec2Model ----
(***************************************************************************)
(* The git-source package resolver of yarn: the Git session of             *)
(* src/util/git.js (secureGitUrl, init, setRef, resolveDefaultBranch,      *)
(* resolveCommit, hasArchiveCapability, fetch) and the version resolver of *)
(* src/util/git/git-ref-resolver.js (resolveVersion, parseRefs).           *)
(*                                                                         *)
(* Strings are TLA+ strings; TLC evaluates Len, SubSeq and \o on them, so  *)
(* the regular expressions and the string methods of the source are        *)
(* written out character by character.  The output of a git subprocess is  *)
(* the sequence of its lines.                                              *)
(***************************************************************************)
EXTENDS Integers, Sequences, FiniteSets, TLC

(***************************************************************************)
(* String helpers (JavaScript String methods used by the source).          *)
(***************************************************************************)

NULL == "<null>"

CharAt(s, i) == SubSeq(s, i, i)

Slice(s, i) == SubSeq(s, i, Len(s))

StartsWith(s, p) == Len(p) <= Len(s) /\ SubSeq(s, 1, Len(p)) = p

EndsWith(s, p) == Len(p) <= Len(s) /\ SubSeq(s, Len(s) - Len(p) + 1, Len(s)) = p

\* s.indexOf(c) + 1: the place of the first c in s, 0 when there is none
IndexOf(s, c) ==
  IF \E i \in 1..Len(s) : CharAt(s, i) = c
  THEN CHOOSE i \in 1..Len(s) :
         CharAt(s, i) = c /\ \A j \in 1..(i - 1) : CharAt(s, j) # c
  ELSE 0

UpperChars == "ABCDEFGHIJKLMNOPQRSTUVWXYZ"

LowerChars == "abcdefghijklmnopqrstuvwxyz"

LowerChar(c) ==
  IF \E i \in 1..Len(UpperChars) : CharAt(UpperChars, i) = c
  THEN CharAt(LowerChars, CHOOSE i \in 1..Len(UpperChars) : CharAt(UpperChars, i) = c)
  ELSE c

RECURSIVE ToLowerCase(_)
ToLowerCase(s) ==
  IF s = "" THEN "" ELSE LowerChar(CharAt(s, 1)) \o ToLowerCase(Slice(s, 2))

WhiteSpace == {" ", "\t"}

RECURSIVE TrimStart(_)
TrimStart(s) ==
  IF s # "" /\ CharAt(s, 1) \in WhiteSpace THEN TrimStart(Slice(s, 2)) ELSE s

RECURSIVE TrimEnd(_)
TrimEnd(s) ==
  IF s # "" /\ CharAt(s, Len(s)) \in WhiteSpace
  THEN TrimEnd(SubSeq(s, 1, Len(s) - 1))
  ELSE s

Trim(s) == TrimEnd(TrimStart(s))

Digits == {"0", "1", "2", "3", "4", "5", "6", "7", "8", "9"}

HexLower == Digits \cup {"a", "b", "c", "d", "e", "f"}

HexAny == HexLower \cup {"A", "B", "C", "D", "E", "F"}

(***************************************************************************)
(* isCommitSha: Boolean(target) && /^[a-f0-9]{5,40}$/.test(target)         *)
(***************************************************************************)

MinShaLen == 5

MaxShaLen == 40

\* mutant of isCommitSha: the quantifier {8,40}
isCommitShaShort(target) ==
  /\ target # ""
  /\ Len(target) >= MinShaLen + 3 /\ Len(target) <= MaxShaLen
  /\ \A i \in 1..Len(target) : CharAt(target, i) \in HexLower

isCommitSha(target) ==
  /\ target # ""
  /\ Len(target) >= MinShaLen /\ Len(target) <= MaxShaLen
  /\ \A i \in 1..Len(target) : CharAt(target, i) \in HexLower

(***************************************************************************)
(* Git subprocesses.  A run is recorded as the argument vector, the        *)
(* working directory ("" when none is given) and whether it exited 0.      *)
(***************************************************************************)

Cmd(args, cwd, ok) == [args |-> args, cwd |-> cwd, ok |-> ok]

LsRemoteProbe(repository) == <<"ls-remote", "-t", repository>>

(***************************************************************************)
(* GitUrl and the secure-URL upgrade.                                      *)
(***************************************************************************)

GitUrl(protocol, hostname, repository) ==
  [protocol |-> protocol, hostname |-> hostname, repository |-> repository]

\* mutant of ReplaceSchemePrefix: the pattern /^git:/
ReplaceGitPrefixOnly(repository, protocol) ==
  IF StartsWith(repository, "git:") THEN protocol \o Slice(repository, 5)
  ELSE repository

\* ref.repository.replace(/^(?:git|http):/, protocol)
ReplaceSchemePrefix(repository, protocol) ==
  IF StartsWith(repository, "git:") THEN protocol \o Slice(repository, 5)
  ELSE IF StartsWith(repository, "http:") THEN protocol \o Slice(repository, 6)
  ELSE repository

\* mutant of replaceProtocol: the reference is returned as it came
replaceProtocolKeep(ref, protocol) == ref

replaceProtocol(ref, protocol) ==
  GitUrl(protocol, ref.hostname, ReplaceSchemePrefix(ref.repository, protocol))

\* repoExists(ref): one run of git ls-remote -t <repository>; true iff it exits 0
repoExists(ref, ok) == Cmd(LsRemoteProbe(ref.repository), "", ok)

SecureResult(url, error, probes) == [url |-> url, error |-> error, probes |-> probes]

\* mutant of secureGitUrl: every reference is trusted as it is
secureGitUrlTrusting(ref, hash, httpsOk, httpOk) == SecureResult(ref, "", <<>>)

\* secureGitUrl(ref, hash): httpsOk and httpOk are the answers of the remote
\* to the probe of the https: form and of the http: form
secureGitUrl(ref, hash, httpsOk, httpOk) ==
  IF isCommitSha(hash) THEN SecureResult(ref, "", <<>>)
  ELSE IF ref.protocol = "git:" THEN
    LET secureUrl == replaceProtocol(ref, "https:") IN
    IF httpsOk
    THEN SecureResult(secureUrl, "", <<repoExists(secureUrl, TRUE)>>)
    ELSE SecureResult(NULL, "SecurityError", <<repoExists(secureUrl, FALSE)>>)
  ELSE IF ref.protocol = "http:" THEN
    LET secureRef == replaceProtocol(ref, "https:") IN
    IF httpsOk
    THEN SecureResult(secureRef, "", <<repoExists(secureRef, TRUE)>>)
    ELSE IF httpOk
    THEN SecureResult(ref, "", <<repoExists(secureRef, FALSE), repoExists(ref, TRUE)>>)
    ELSE SecureResult(NULL, "SecurityError",
                      <<repoExists(secureRef, FALSE), repoExists(ref, FALSE)>>)
  ELSE IF ref.protocol = "https:" THEN
    IF httpsOk
    THEN SecureResult(ref, "", <<repoExists(ref, TRUE)>>)
    ELSE SecureResult(NULL, "SecurityError", <<repoExists(ref, FALSE)>>)
  ELSE SecureResult(ref, "", <<>>)

(***************************************************************************)
(* parseRefs: the lines of git ls-remote --tags --heads to the ref table.  *)
(* The table is a JavaScript object: a sequence of (name, sha) entries in  *)
(* insertion order, no name twice.                                         *)
(***************************************************************************)

RECURSIVE RunLen(_, _)
\* the length of the longest prefix of s made of characters of set
RunLen(s, set) ==
  IF s # "" /\ CharAt(s, 1) \in set THEN 1 + RunLen(Slice(s, 2), set) ELSE 0

REF_TAG_PREFIX == "refs/tags/"

REF_BRANCH_PREFIX == "refs/heads/"

\* gitRefLineRegex = /^([a-fA-F0-9]+)\s+(refs\/(?:tags|heads)\/.*)$/
gitRefLineRegex(line) ==
  LET h    == RunLen(line, HexAny)
      w    == RunLen(Slice(line, h + 1), WhiteSpace)
      rest == Slice(line, h + w + 1)
  IN IF h >= 1 /\ w >= 1
        /\ (StartsWith(rest, REF_TAG_PREFIX) \/ StartsWith(rest, REF_BRANCH_PREFIX))
     THEN [sha |-> SubSeq(line, 1, h), name |-> rest]
     ELSE [sha |-> NULL, name |-> NULL]

removeSuffix(pattern, suffix) ==
  IF EndsWith(pattern, suffix) THEN SubSeq(pattern, 1, Len(pattern) - Len(suffix))
  ELSE pattern

HasRef(refs, name) == \E i \in 1..Len(refs) : refs[i].name = name

\* refs[name]: the SHA of the entry, NULL (undefined) when there is none
RefSha(refs, name) ==
  IF HasRef(refs, name)
  THEN refs[CHOOSE i \in 1..Len(refs) : refs[i].name = name].sha
  ELSE NULL

\* refs[name] = sha: an existing key keeps its place, a new key goes last
SetRefEntry(refs, name, sha) ==
  IF HasRef(refs, name)
  THEN [i \in 1..Len(refs) |->
          IF refs[i].name = name THEN [name |-> name, sha |-> sha] ELSE refs[i]]
  ELSE Append(refs, [name |-> name, sha |-> sha])

RECURSIVE parseRefsKeepTagObject(_)
\* mutant of parseRefs: a peeled line is dropped
parseRefsKeepTagObject(lines) ==
  IF lines = <<>> THEN <<>>
  ELSE LET refs  == parseRefsKeepTagObject(SubSeq(lines, 1, Len(lines) - 1))
           match == gitRefLineRegex(lines[Len(lines)])
       IN IF match.sha = NULL \/ EndsWith(match.name, "^{}") THEN refs
          ELSE SetRefEntry(refs, match.name, match.sha)

RECURSIVE parseRefs(_)
parseRefs(lines) ==
  IF lines = <<>> THEN <<>>
  ELSE LET refs  == parseRefs(SubSeq(lines, 1, Len(lines) - 1))
           match == gitRefLineRegex(lines[Len(lines)])
       IN IF match.sha = NULL THEN refs
          ELSE SetRefEntry(refs, removeSuffix(match.name, "^{}"), match.sha)

(***************************************************************************)
(* The semver library and config.resolveConstraints, which the resolver    *)
(* consumes as a black box.  The fragment modelled: versions [v]M.m.p with *)
(* an optional -prerelease; ranges *, [~][v]M, [~][v]M.m and [~][v]M.m.p   *)
(* and the empty range, which is the same as the range * .                *)
(* A prerelease satisfies none of these ranges.                            *)
(***************************************************************************)

RECURSIVE Split(_, _)
SplitAt(s, c, k) ==
  IF k = 0 THEN <<s>>
  ELSE <<SubSeq(s, 1, k - 1)>> \o Split(Slice(s, k + 1), c)

\* s.split(c)
Split(s, c) == SplitAt(s, c, IndexOf(s, c))

IsNumber(s) == s # "" /\ \A i \in 1..Len(s) : CharAt(s, i) \in Digits

RECURSIVE NumVal(_)
NumVal(s) ==
  IF s = "" THEN 0
  ELSE 10 * NumVal(SubSeq(s, 1, Len(s) - 1))
       + (CHOOSE d \in 0..9 : CharAt("0123456789", d + 1) = CharAt(s, Len(s)))

StripV(s) == IF StartsWith(s, "v") THEN Slice(s, 2) ELSE s

NoVersion == [ok |-> FALSE, major |-> 0, minor |-> 0, patch |-> 0, pre |-> FALSE]

\* the version of the numbers core, followed by a prerelease tag when dash > 0
VersionOfParts(core, dash, len) ==
  IF Len(core) = 3 /\ (\A i \in 1..3 : IsNumber(core[i])) /\ dash # len
  THEN [ok |-> TRUE, major |-> NumVal(core[1]), minor |-> NumVal(core[2]),
        patch |-> NumVal(core[3]), pre |-> dash > 0]
  ELSE NoVersion

VersionOfCore(s, dash) ==
  VersionOfParts(Split(IF dash = 0 THEN s ELSE SubSeq(s, 1, dash - 1), "."),
                 dash, Len(s))

VersionOfBody(s) == VersionOfCore(s, IndexOf(s, "-"))

\* semver.valid(name, loose) is non-null iff SemverParse(name).ok
SemverParse(name) == VersionOfBody(StripV(name))

SemverValid(name) == SemverParse(name).ok

\* a range: parts is how many of major, minor, patch it gives (0 for *)
NoRange == [ok |-> FALSE, tilde |-> FALSE, parts |-> 0, major |-> 0, minor |-> 0, patch |-> 0]

RangeOfParts(tilde, p) ==
  IF Len(p) <= 3 /\ \A i \in 1..Len(p) : IsNumber(p[i])
  THEN [ok |-> TRUE, tilde |-> tilde, parts |-> Len(p),
        major |-> NumVal(p[1]),
        minor |-> IF Len(p) >= 2 THEN NumVal(p[2]) ELSE 0,
        patch |-> IF Len(p) >= 3 THEN NumVal(p[3]) ELSE 0]
  ELSE NoRange

RangeOfBody(r, tilde) ==
  IF r = "*" \/ r = "" THEN [NoRange EXCEPT !.ok = TRUE]
  ELSE RangeOfParts(tilde, Split(StripV(IF tilde THEN Slice(r, 2) ELSE r), "."))

RangeOfTrimmed(r) == RangeOfBody(r, StartsWith(r, "~"))

RangeParse(range) == RangeOfTrimmed(Trim(range))

SatisfiesParsed(v, r) ==
  /\ v.ok /\ r.ok /\ ~v.pre
  /\ (r.parts < 1 \/ v.major = r.major)
  /\ (r.parts < 2 \/ v.minor = r.minor)
  /\ (r.parts < 3 \/ IF r.tilde THEN v.patch >= r.patch ELSE v.patch = r.patch)

\* semver.satisfies(name, range)
Satisfies(name, range) == SatisfiesParsed(SemverParse(name), RangeParse(range))

LessParsed(x, y) ==
  \/ x.major < y.major
  \/ x.major = y.major /\ x.minor < y.minor
  \/ x.major = y.major /\ x.minor = y.minor /\ x.patch < y.patch

\* semver compare(a, b) < 0 on releases
SemverLess(a, b) == LessParsed(SemverParse(a), SemverParse(b))

RECURSIVE MaxSatisfying(_, _, _)
\* semver.maxSatisfying: the first of the greatest names that satisfy range
MaxSatisfying(names, range, max) ==
  IF names = <<>> THEN max
  ELSE MaxSatisfying(Tail(names), range,
         IF Satisfies(Head(names), range) /\ (max = NULL \/ SemverLess(max, Head(names)))
         THEN Head(names) ELSE max)

\* config.resolveConstraints(namesList, version)
resolveConstraints(namesList, version) == MaxSatisfying(namesList, version, NULL)

(***************************************************************************)
(* The version resolver (src/util/git/git-ref-resolver.js).  A strategy    *)
(* answers null, a ResolvedSha {sha, ref}, or calls back into the session: *)
(* git.resolveCommit(sha) or git.resolveDefaultBranch().                   *)
(***************************************************************************)

Res(kind, sha, ref) == [kind |-> kind, sha |-> sha, ref |-> ref]

ResNull == Res("null", NULL, NULL)

ResolvedSha(sha, ref) == Res("sha", sha, ref)

CallResolveCommit(sha) == Res("resolveCommit", sha, NULL)

CallResolveDefaultBranch == Res("resolveDefaultBranch", NULL, NULL)

\* for (const ref in refs) if (refs[ref].startsWith(prefix)) return {sha, ref}
FirstRefWithSha(refs, prefix) ==
  IF \E i \in 1..Len(refs) : StartsWith(refs[i].sha, prefix)
  THEN CHOOSE i \in 1..Len(refs) :
         /\ StartsWith(refs[i].sha, prefix)
         /\ \A j \in 1..(i - 1) : ~StartsWith(refs[j].sha, prefix)
  ELSE 0

\* mutant of GitCommitAt: without a listed ref the step answers null
GitCommitAtListedOnly(refs, i, lowercaseVersion) ==
  IF i > 0 THEN ResolvedSha(refs[i].sha, refs[i].name) ELSE ResNull

GitCommitAt(refs, i, lowercaseVersion) ==
  IF i > 0 THEN ResolvedSha(refs[i].sha, refs[i].name)
  ELSE CallResolveCommit(lowercaseVersion)

GitCommitOf(lowercaseVersion, refs) ==
  IF ~isCommitSha(lowercaseVersion) THEN ResNull
  ELSE GitCommitAt(refs, FirstRefWithSha(refs, lowercaseVersion), lowercaseVersion)

\* mutant of tryVersionAsGitCommit: the version is matched in the case it came in
tryVersionAsGitCommitCaseSensitive(version, refs) == GitCommitOf(version, refs)

tryVersionAsGitCommit(version, refs) == GitCommitOf(ToLowerCase(version), refs)

tryWildcardVersionAsDefaultBranch(version) ==
  IF version = "*" THEN CallResolveDefaultBranch ELSE ResNull

\* if (refs[ref]) return {sha: refs[ref], ref}: an empty SHA is falsy
RefOf(sha, ref) == IF sha # NULL /\ sha # "" THEN ResolvedSha(sha, ref) ELSE ResNull

tryRef(refs, ref) == RefOf(RefSha(refs, ref), ref)

tryVersionAsFullRef(version, refs) ==
  IF StartsWith(version, "refs/") THEN tryRef(refs, version) ELSE ResNull

tryVersionAsTagName(version, refs) == tryRef(refs, REF_TAG_PREFIX \o version)

tryVersionAsBranchName(version, refs) == tryRef(refs, REF_BRANCH_PREFIX \o version)

\* refNameRegexp = /^refs\/(tags|heads)\/(.+)$/, kept when semver.valid(name)
RECURSIVE SemverNamesUnder(_, _)
SemverNamesUnder(refs, prefix) ==
  IF refs = <<>> THEN <<>>
  ELSE (IF /\ StartsWith(Head(refs).name, prefix)
           /\ Len(Head(refs).name) > Len(prefix)
           /\ SemverValid(Slice(Head(refs).name, Len(prefix) + 1))
        THEN <<Slice(Head(refs).name, Len(prefix) + 1)>>
        ELSE <<>>) \o SemverNamesUnder(Tail(refs), prefix)

computeSemverNames(refs) ==
  [tags     |-> SemverNamesUnder(refs, REF_TAG_PREFIX),
   branches |-> SemverNamesUnder(refs, REF_BRANCH_PREFIX)]

findSemver(version, namesList) == resolveConstraints(namesList, version)

\* if (result) return {sha: refs[ref], ref} with ref = prefix + result
SemverRefOf(refs, prefix, result) ==
  IF result # NULL /\ result # ""
  THEN ResolvedSha(RefSha(refs, prefix \o result), prefix \o result)
  ELSE ResNull

tryVersionAsTagSemver(version, refs, names) ==
  SemverRefOf(refs, REF_TAG_PREFIX, findSemver(version, names.tags))

tryVersionAsBranchSemver(version, refs, names) ==
  SemverRefOf(refs, REF_BRANCH_PREFIX, findSemver(version, names.branches))

\* a || b on strategy answers
OrElse(a, b) == IF a # ResNull THEN a ELSE b

SemverRangeIn(version, refs, names) ==
  OrElse(tryVersionAsTagSemver(version, refs, names),
         tryVersionAsBranchSemver(version, refs, names))

\* mutant of tryVersionAsSemverRange: the tags only
tryVersionAsSemverRangeOfTags(version, refs) ==
  tryVersionAsTagSemver(version, refs, computeSemverNames(refs))

tryVersionAsSemverRange(version, refs) ==
  SemverRangeIn(version, refs, computeSemverNames(refs))

\* mutant of VERSION_RESOLUTION_STEPS: the branch name before the tag name
StepsBranchBeforeTag ==
  << "tryVersionAsGitCommit",
     "tryVersionAsFullRef",
     "tryVersionAsBranchName",
     "tryVersionAsTagName",
     "tryVersionAsSemverRange",
     "tryWildcardVersionAsDefaultBranch" >>

\* mutant of VERSION_RESOLUTION_STEPS: the semver range before the names
StepsSemverBeforeNames ==
  << "tryVersionAsGitCommit",
     "tryVersionAsFullRef",
     "tryVersionAsSemverRange",
     "tryVersionAsTagName",
     "tryVersionAsBranchName",
     "tryWildcardVersionAsDefaultBranch" >>

VERSION_RESOLUTION_STEPS ==
  << "tryVersionAsGitCommit",
     "tryVersionAsFullRef",
     "tryVersionAsTagName",
     "tryVersionAsBranchName",
     "tryVersionAsSemverRange",
     "tryWildcardVersionAsDefaultBranch" >>

testFunction(step, version, refs) ==
  CASE step = "tryVersionAsGitCommit"  -> tryVersionAsGitCommit(version, refs)
    [] step = "tryVersionAsFullRef"    -> tryVersionAsFullRef(version, refs)
    [] step = "tryVersionAsTagName"    -> tryVersionAsTagName(version, refs)
    [] step = "tryVersionAsBranchName" -> tryVersionAsBranchName(version, refs)
    [] step = "tryVersionAsSemverRange" -> tryVersionAsSemverRange(version, refs)
    [] step = "tryWildcardVersionAsDefaultBranch" ->
         tryWildcardVersionAsDefaultBranch(version)

RECURSIVE resolveVersionIn(_, _, _)
\* the loop of resolveVersion over steps: the first answer that is not null
\* (a callback into the session is the answer of its step)
resolveVersionIn(steps, version, refs) ==
  IF steps = <<>> THEN ResNull
  ELSE OrElse(testFunction(Head(steps), version, refs),
              resolveVersionIn(Tail(steps), version, refs))

\* mutant of resolveVersion: version === '' without the trim
resolveVersionNoTrim(version, refs) ==
  IF version = "" THEN CallResolveDefaultBranch
  ELSE resolveVersionIn(VERSION_RESOLUTION_STEPS, version, refs)

resolveVersion(version, refs) ==
  IF Trim(version) = "" THEN CallResolveDefaultBranch
  ELSE resolveVersionIn(VERSION_RESOLUTION_STEPS, version, refs)

(***************************************************************************)
(* Specifiers: isGitPattern and npmUrlToGitUrl, with the part of Node's    *)
(* url.parse they read: protocol, hostname, pathname and path.             *)
(***************************************************************************)

\* the character of s at index i, "" outside s
At(s, i) == IF i >= 1 /\ i <= Len(s) THEN CharAt(s, i) ELSE ""

\* s.substring(i - 1, j): the characters i..j of s that exist
Mid(s, i, j) ==
  IF i > Len(s) \/ j < i THEN ""
  ELSE SubSeq(s, IF i < 1 THEN 1 ELSE i, IF j > Len(s) THEN Len(s) ELSE j)

RECURSIVE RunLenNot(_, _)
\* the length of the longest prefix of s with no character of set
RunLenNot(s, set) ==
  IF s # "" /\ At(s, 1) \notin set THEN 1 + RunLenNot(Slice(s, 2), set) ELSE 0

\* s.lastIndexOf(c), 0 when there is none
LastIndexOf(s, c) ==
  IF \E i \in 1..Len(s) : At(s, i) = c
  THEN CHOOSE i \in 1..Len(s) : At(s, i) = c /\ \A j \in (i + 1)..Len(s) : At(s, j) # c
  ELSE 0

Letters == { CharAt(LowerChars, i) : i \in 1..Len(LowerChars) }
              \cup { CharAt(UpperChars, i) : i \in 1..Len(UpperChars) }

\* url.parse: protocolPattern = /^([a-z0-9.+-]+:)/i
ProtocolChars == Letters \cup Digits \cup {".", "+", "-"}

\* url.parse: hostnamePartPattern = /^[+a-z0-9A-Z_-]{0,63}$/, parts joined by dots
HostnameChars == Letters \cup Digits \cup {"+", "_", "-", "."}

\* url.parse: slashedProtocol
SlashedProtocols == {"http:", "https:", "ftp:", "gopher:", "file:"}

Parsed(protocol, hostname, pathname, path) ==
  [protocol |-> protocol, hostname |-> hostname, pathname |-> pathname, path |-> path]

\* the path of a URL whose protocol and host are read: pathname up to ? or #,
\* path = pathname + search; NULL stands for null
UrlParsePath(protocol, hostname, rest) ==
  LET noHash   == Mid(rest, 1, RunLenNot(rest, {"#"}))
      name     == Mid(noHash, 1, RunLenNot(noHash, {"?"}))
      search   == Slice(noHash, Len(name) + 1)
      pathname == IF name # "" THEN name
                  ELSE IF protocol \in SlashedProtocols /\ hostname \notin {NULL, ""} THEN "/"
                  ELSE NULL
  IN Parsed(protocol, hostname, pathname,
            IF pathname = NULL THEN (IF search = "" THEN NULL ELSE search)
            ELSE pathname \o search)

\* host text without its trailing :port (portPattern = /:[0-9]*$/)
StripPort(host) ==
  LET c == LastIndexOf(host, ":") IN
  IF c > 0 /\ \A i \in (c + 1)..Len(host) : At(host, i) \in Digits
  THEN Mid(host, 1, c - 1)
  ELSE host

\* the name is the longest valid prefix of the host text; what follows it
\* goes to the front of the path
UrlParseHostname(protocol, name, tail) ==
  LET valid == RunLen(name, HostnameChars) IN
  UrlParsePath(protocol, ToLowerCase(Mid(name, 1, valid)),
               IF valid < Len(name) THEN "/" \o Slice(name, valid + 1) \o tail ELSE tail)

\* hostPart is auth@host:port, tail is what follows it
UrlParseHost(protocol, hostPart, tail) ==
  UrlParseHostname(protocol, StripPort(Slice(hostPart, LastIndexOf(hostPart, "@") + 1)), tail)

\* rest is what follows the protocol; a host is read when it starts with // or
\* when the protocol is not one of the slashed ones
UrlParseRest(protocol, rest) ==
  LET slashes == StartsWith(rest, "//")
      after   == IF slashes THEN Slice(rest, 3) ELSE rest
      hostEnd == RunLenNot(after, {"/", "?", "#"})
  IN IF protocol # NULL /\ (slashes \/ protocol \notin SlashedProtocols)
     THEN UrlParseHost(protocol, Mid(after, 1, hostEnd), Slice(after, hostEnd + 1))
     ELSE UrlParsePath(protocol, NULL, rest)

UrlParseAt(s, p) ==
  IF p >= 1 /\ p < Len(s) + 1 /\ At(s, p + 1) = ":"
  THEN UrlParseRest(ToLowerCase(Mid(s, 1, p)) \o ":", Slice(s, p + 2))
  ELSE UrlParseRest(NULL, s)

\* url.parse(s)
UrlParse(s) == UrlParseAt(s, RunLen(s, ProtocolChars))

GIT_PROTOCOLS == {"git:", "ssh:"}

HostedGitConfiguration(protocol, defaultHostname, hostnames) ==
  [protocol |-> protocol, defaultHostname |-> defaultHostname, hostnames |-> hostnames]

HOSTED_GIT_CONFIGURATIONS ==
  << HostedGitConfiguration("bitbucket:", "bitbucket.org", {"bitbucket.org", "bitbucket.com"}),
     HostedGitConfiguration("gitlab:", "gitlab.com", {"github.com"}),
     HostedGitConfiguration("github:", "github.com", {"github.com"}) >>

\* the keys of HOSTED_GIT_CONFIGURATIONS_BY_PROTOCOL
HostedProtocols ==
  { HOSTED_GIT_CONFIGURATIONS[i].protocol : i \in 1..Len(HOSTED_GIT_CONFIGURATIONS) }

\* the keys of HOSTED_GIT_CONFIGURATIONS_BY_HOSTNAME
HostedHostnames ==
  UNION { HOSTED_GIT_CONFIGURATIONS[i].hostnames : i \in 1..Len(HOSTED_GIT_CONFIGURATIONS) }

GIT_EXTENSION == ".git"

\* GIT_PROTOCOL_REGEXP = /git\+.+:/
GIT_PROTOCOL_REGEXP(protocol) ==
  \E i \in 1..Len(protocol) :
    /\ Mid(protocol, i, i + 3) = "git+"
    /\ \E j \in (i + 5)..Len(protocol) : At(protocol, j) = ":"

\* GITHUB_SHORTHAND_REGEXP = /^[^:@%/\s.-][^:@%/\s]*[/][^:@\s/%]+(?:#.*)?$/
GITHUB_SHORTHAND_REGEXP(pattern) ==
  LET bad   == {":", "@", "%", "/"} \cup WhiteSpace
      slash == RunLenNot(pattern, bad) + 1
      repo  == Slice(pattern, slash + 1)
  IN /\ slash >= 2
     /\ At(pattern, 1) \notin {".", "-"}
     /\ At(pattern, slash) = "/"
     /\ \E k \in 1..Len(repo) :
          /\ RunLenNot(repo, bad) >= k
          /\ k = Len(repo) \/ At(repo, k + 1) = "#"

\* GIT_WITHOUT_PROTOCOL_REGEXP = /^git@([^:@%/\s]+)[/:].+?$/
GIT_WITHOUT_PROTOCOL_REGEXP(pattern) ==
  LET host == RunLenNot(Slice(pattern, 5), {":", "@", "%", "/"} \cup WhiteSpace) IN
  /\ StartsWith(pattern, "git@")
  /\ host >= 1
  /\ At(pattern, 4 + host + 1) \in {"/", ":"}
  /\ Len(pattern) >= 4 + host + 2

NoMatch == [matched |-> FALSE, all |-> NULL, host |-> NULL, first |-> NULL]

\* the groups of SCP_LIKE_REGEXP in rest, which follows git+ssh://, when the
\* host starts at index from
ScpLikeFrom(rest, from) ==
  LET host == RunLenNot(Slice(rest, from), {"@", ":", "/"})
      colon == from + host
  IN IF host >= 1 /\ colon <= Len(rest) /\ At(rest, colon) = ":"
     THEN [matched |-> TRUE, all |-> rest, host |-> Mid(rest, from, colon - 1),
           first |-> Mid(rest, colon + 1, colon + RunLenNot(Slice(rest, colon + 1), {"/"}))]
     ELSE NoMatch

\* SCP_LIKE_REGEXP = /^git\+ssh:\/\/((?:[^@:\/]+@)?([^@:\/]+):([^/]*).*)/
SCP_LIKE_REGEXP(pattern) ==
  LET rest == Slice(pattern, 11)
      user == RunLenNot(rest, {"@", ":", "/"})
  IN IF ~StartsWith(pattern, "git+ssh://") THEN NoMatch
     ELSE IF user >= 1 /\ user < Len(rest) /\ At(rest, user + 1) = "@"
     THEN ScpLikeFrom(rest, user + 2)
     ELSE ScpLikeFrom(rest, 1)

\* /[^0-9]/.test(s)
HasNonDigit(s) == \E i \in 1..Len(s) : At(s, i) \notin Digits

\* path.split('/').filter(Boolean).length
Segments(path) ==
  Cardinality({ i \in 1..Len(Split(path, "/")) : Split(path, "/")[i] # "" })

\* isGitPattern after the scp-like test, on what url.parse answered
isGitPatternParsed(pattern, parsed) ==
  IF parsed.protocol = NULL
  THEN GITHUB_SHORTHAND_REGEXP(pattern) \/ GIT_WITHOUT_PROTOCOL_REGEXP(pattern)
  ELSE \/ parsed.pathname # NULL /\ EndsWith(parsed.pathname, GIT_EXTENSION)
       \/ GIT_PROTOCOL_REGEXP(parsed.protocol)
       \/ parsed.protocol \in GIT_PROTOCOLS
       \/ parsed.protocol \in HostedProtocols
       \/ /\ parsed.hostname \notin {NULL, ""} /\ parsed.path # NULL
          /\ parsed.hostname \in HostedHostnames
          /\ Segments(parsed.path) = 2

isGitPatternScp(pattern, scpLikeMatch) ==
  IF scpLikeMatch.matched /\ HasNonDigit(scpLikeMatch.first) THEN TRUE
  ELSE isGitPatternParsed(pattern, UrlParse(pattern))

isGitPattern(pattern) == isGitPatternScp(pattern, SCP_LIKE_REGEXP(pattern))

\* s.replace(/\.git$/, '')
removeGitExtension(s) == removeSuffix(s, ".git")

\* path.replace(/^[^:/]+:\/\//, '')
removeProtocol(path) ==
  LET n == RunLenNot(path, {":", "/"}) IN
  IF n >= 1 /\ Mid(path, n + 1, n + 3) = "://" THEN Slice(path, n + 4) ELSE path

\* the end of a match of (?:[:]\d+)?[:/] at index at of path, 0 when none
PortAndSeparatorEnd(path, at) ==
  LET digits == RunLen(Slice(path, at + 1), Digits) IN
  IF at <= Len(path) /\ At(path, at) = ":" /\ digits >= 1
     /\ at + digits + 1 <= Len(path) /\ At(path, at + digits + 1) \in {":", "/"}
  THEN at + digits + 1
  ELSE IF at <= Len(path) /\ At(path, at) \in {":", "/"} THEN at
  ELSE 0

\* path.replace(/^[^:/@]+@[^:/]+(?:[:]\d+)?[:/]/, '')
removeUserAndHostname(path) ==
  LET name == RunLenNot(path, {":", "/", "@"})
      host == RunLenNot(Slice(path, name + 2), {":", "/"})
      stop == PortAndSeparatorEnd(path, name + 1 + host + 1)
  IN IF name >= 1 /\ name < Len(path) /\ At(path, name + 1) = "@" /\ host >= 1 /\ stop > 0
     THEN Slice(path, stop + 1)
     ELSE path

ExplodedFragment(user, repo, fragment) ==
  [error |-> "", user |-> user, repo |-> repo, hash |-> fragment]

\* hostedGit: undefined
NoHostedGit == ExplodedFragment(NULL, NULL, NULL)

invalidHostedGitFragment == [error |-> "MessageError", user |-> NULL, repo |-> NULL, hash |-> NULL]

\* parts = path.split(/[/](.*)/, 2), with its length test
explodePath(path, fragment) ==
  LET user == RunLenNot(path, {"/"}) IN
  IF user = Len(path) THEN invalidHostedGitFragment
  ELSE ExplodedFragment(Mid(path, 1, user), Slice(path, user + 2), fragment)

explodeHostedGitFragment(pattern) ==
  LET path == Mid(pattern, 1, RunLenNot(pattern, {"#"})) IN
  explodePath(removeGitExtension(removeUserAndHostname(removeProtocol(path))),
              Slice(pattern, Len(path) + 2))

\* httpsUrlTemplate, the same for the three providers
httpsUrlTemplate(hostname, parts) ==
  "https://" \o hostname \o "/" \o parts.user \o "/" \o parts.repo \o ".git"

Hosted(error, pattern, hostedGit) == [error |-> error, pattern |-> pattern, hostedGit |-> hostedGit]

\* the body of the loop of resolveHostedGitPattern for a matching configuration
resolveHostedWith(conf, hostedGit) ==
  IF hostedGit.error # "" THEN Hosted(hostedGit.error, NULL, NoHostedGit)
  ELSE Hosted("", httpsUrlTemplate(conf.defaultHostname, hostedGit), hostedGit)

resolveHostedPrefixed(pattern) ==
  LET matching == { i \in 1..Len(HOSTED_GIT_CONFIGURATIONS) :
                      StartsWith(pattern, HOSTED_GIT_CONFIGURATIONS[i].protocol) }
      conf     == HOSTED_GIT_CONFIGURATIONS[CHOOSE i \in matching : \A j \in matching : i <= j]
  IN IF matching = {} THEN Hosted("", pattern, NoHostedGit)
     ELSE resolveHostedWith(conf, explodeHostedGitFragment(Slice(pattern, Len(conf.protocol) + 1)))

resolveHostedGitPattern(pattern) ==
  resolveHostedPrefixed(IF GITHUB_SHORTHAND_REGEXP(pattern) THEN "github:" \o pattern ELSE pattern)

NormalizeResult(error, gitUrl, hostedGit) == [error |-> error, url |-> gitUrl, hostedGit |-> hostedGit]

\* {hostname: parsed.hostname || null, protocol: parsed.protocol || 'file:', repository, hostedGit}
gitUrlOfParsed(repository, parsed, hostedGit) ==
  NormalizeResult("", GitUrl(IF parsed.protocol = NULL THEN "file:" ELSE parsed.protocol,
                             IF parsed.hostname \in {NULL, ""} THEN NULL ELSE parsed.hostname,
                             repository), hostedGit)

\* mutant of removeGitPlus: the prefix stays
keepGitPlus(pattern) == pattern

\* pattern.replace(/^git\+/, '')
removeGitPlus(pattern) == IF StartsWith(pattern, "git+") THEN Slice(pattern, 5) ELSE pattern

gitUrlOfRepository(repository, hostedGit) == gitUrlOfParsed(repository, UrlParse(repository), hostedGit)

gitUrlOfHosted(hosted) ==
  IF hosted.error # "" THEN NormalizeResult(hosted.error, NULL, NoHostedGit)
  ELSE gitUrlOfRepository(removeGitPlus(hosted.pattern), hosted.hostedGit)

npmUrlToGitUrlScp(pattern, scpLikeMatch) ==
  IF scpLikeMatch.matched /\ HasNonDigit(scpLikeMatch.first)
  THEN NormalizeResult("", GitUrl("ssh:", scpLikeMatch.host, scpLikeMatch.all), NoHostedGit)
  ELSE gitUrlOfHosted(resolveHostedGitPattern(
         IF GIT_WITHOUT_PROTOCOL_REGEXP(pattern) THEN "ssh://" \o pattern ELSE pattern))

npmUrlToGitUrl(pattern) == npmUrlToGitUrlScp(pattern, SCP_LIKE_REGEXP(pattern))

(***************************************************************************)
(* The session (class Git of src/util/git.js) and what surrounds it.       *)
(***************************************************************************)

VARIABLES
  gitUrl,               \* this.gitUrl
  hash,                 \* this.hash
  ref,                  \* this.ref
  supportsArchive,      \* this.supportsArchive
  fetched,              \* this.fetched
  cwd,                  \* this.cwd
  pc,                   \* where init() stands
  err,                  \* the error init() failed with, "" when none
  errArgs,              \* the arguments of the message of that error
  refs,                 \* the ref table setRef resolves against
  resolvedResult,       \* what resolveVersion answered, ResNull before
  shaToResolve,         \* the argument of a pending resolveCommit
  cmds,                 \* every git subprocess run so far, in order
  supportsArchiveCache, \* the process-wide cache, hostname -> boolean
  cwdExists,            \* whether the directory cwd exists
  remote,               \* the lines the remote answers git ls-remote --tags --heads with
  url0,                 \* the GitUrl the session was constructed with
  version,              \* the hash the session was constructed with
  file,                 \* what getFile answered, NoFile before
  url,                  \* the resolver's url
  locked,               \* what request.getLocked('git') answers
  registry,             \* the resolver's registry
  toTry,                \* the registries resolve() has still to try, in order
  manifest,             \* what resolve() returned, NoManifest before
  call,                 \* a call of an exported function: its name and argument
  returned,             \* what that call returned, when it has
  sessions,             \* the Git sessions that run side by side, by number
  lockQueue,            \* fs.lockQueue: per key, the tasks pushed and not finished, in order
  dirs,                 \* the temp working directories that exist
  sequential,           \* whether each hasArchiveCapability call is awaited before the next
  capabilityCalls,      \* the calls of hasArchiveCapability of one process, by number
  cacheWrites           \* every assignment to supportsArchiveCache so far, in order

\* the state of one Git session and of the remote it talks to
sessionVars == << gitUrl, hash, ref, supportsArchive, fetched, cwd, pc, err, errArgs, refs,
                  resolvedResult, shaToResolve, cmds, supportsArchiveCache, cwdExists,
                  remote, url0, version, file >>

\* the state of a call of one of the module's functions outside a session
callVars == << call, returned >>

\* what the steps of init() leave alone
\* the state of a GitResolver around its session
resolverVars == << url, locked, registry, toTry, manifest >>

\* the state of sessions that run concurrently, and what they share
concVars == << sessions, lockQueue, dirs >>

\* the calls of hasArchiveCapability outside a session
capabilityVars == << sequential, capabilityCalls, cacheWrites >>

otherVars == << callVars, file, resolverVars, concVars, capabilityVars >>

vars == << sessionVars, callVars, resolverVars, concVars, capabilityVars >>

\* ---- the inputs ----

MaxRefs == 3

Urls ==
  { GitUrl("git:", "github.com", "git://github.com/yarnpkg/yarn.git"),
    GitUrl("http:", "example.com", "http://example.com/123.git"),
    GitUrl("https:", "github.com", "https://github.com/yarnpkg/yarn.git"),
    GitUrl("ssh:", "github.com", "ssh://git@github.com/yarnpkg/yarn"),
    GitUrl("ssh:", "gitlab.tld", "ssh://git@gitlab.tld:10202/p/m.git"),
    GitUrl("file:", NULL, "/srv/repos/m.git") }

Versions ==
  { "", " ", "*", "main", "both", "refs/heads/both", "1.1", " 1.1", "~1.1", "unknown",
    "abcde", "eaa56cb", "EAA56CB", "003ae60",
    "eaa56cb34863810060abbec2d755ba51508afedc" }

\* lines git ls-remote --tags --heads can print, in the order git prints them
RefLines ==
  << "b1ab1ab1ab1ab1ab1ab1ab1ab1ab1ab1ab1ab1ab\trefs/heads/1.0.0",
     "eaa56cb34863810060abbec2d755ba51508afedc\trefs/heads/1.1",
     "5ca1ab1e5ca1ab1e5ca1ab1e5ca1ab1e5ca1ab1e\trefs/heads/abcde",
     "106c28537be070b98ca1effaef6a2bf6414e1e49\trefs/heads/both",
     "8a41a314e23dc566a6b7e73c757a10d13e3320cf\trefs/heads/main",
     "eaa56cb0ffee0ffee0ffee0ffee0ffee0ffee0ff\trefs/tags/1.1",
     "c0ffee11c0ffee11c0ffee11c0ffee11c0ffee11\trefs/tags/abcde",
     "f0dbab0a4345a64f544af37e24fc8187176936a4\trefs/tags/both",
     "70e76d174b0c7d001d2cd608a16c94498496e92d\trefs/tags/both^{}",
     "37d5ed001dc4402d5446911c4e1cb589449e7d8d  refs/tags/v1.1.0",
     "de43f4a993d1e08cd930ee22ecb2bac727f53449\trefs/tags/v2.0.0-pre",
     "e88209b9513544a22fc3f8660e3d829281dc2c9f\trefs/tags/v2.2.0" >>

RECURSIVE PickLines(_, _)
\* the lines of RefLines whose index is in S, from index i on, in order
PickLines(S, i) ==
  IF i > Len(RefLines) THEN <<>>
  ELSE IF i \in S THEN <<RefLines[i]>> \o PickLines(S, i + 1)
  ELSE PickLines(S, i + 1)

Listings ==
  { PickLines(S, 1) : S \in { T \in SUBSET (1..Len(RefLines)) : Cardinality(T) <= MaxRefs } }

\* commits of the remote that no listed ref points at
Commits == { "003ae6063f23a4184736610361f14438a3257c83" }

HEAD_SHA == "7a053e2ca07d19b2e2eebeeb0c27edaacfd67904"

\* what git ls-remote --symref <repo> HEAD prints: a symbolic HEAD, a detached one
SymrefOutputs ==
  { << "ref: refs/heads/master\tHEAD", HEAD_SHA \o "\tHEAD" >>,
    << HEAD_SHA \o "\tHEAD" >> }

\* what git ls-remote <repo> HEAD prints: the line of HEAD, nothing for an empty repository
HeadOutputs == { << HEAD_SHA \o "\tHEAD" >>, << >> }

\* ---- stdout.split(/\s+/) ----

NonSpaceRunLen(s) == IF s = "" THEN 0
                     ELSE IF \E i \in 1..Len(s) : CharAt(s, i) \in WhiteSpace
                     THEN (CHOOSE i \in 1..Len(s) :
                             /\ CharAt(s, i) \in WhiteSpace
                             /\ \A j \in 1..(i - 1) : CharAt(s, j) \notin WhiteSpace) - 1
                     ELSE Len(s)

\* s.split(/\s+/)[0]
FirstField(s) == SubSeq(s, 1, NonSpaceRunLen(s))

\* s.split(/\s+/)[1], NULL (undefined) when s holds no white space
SecondField(s) ==
  LET n    == NonSpaceRunLen(s)
      rest == Slice(s, n + 1)
  IN IF rest = "" THEN NULL
     ELSE FirstField(Slice(rest, RunLen(rest, WhiteSpace) + 1))

\* ---- resolveDefaultBranch ----

DefaultBranchResult(result, error, runs) == [result |-> result, error |-> error, runs |-> runs]

\* mutant of resolveDefaultBranch: a failure of the first run is rethrown
resolveDefaultBranchNoFallback(repository, symref, head) ==
  LET run1 == Cmd(<<"ls-remote", "--symref", repository, "HEAD">>, "", symref.ok)
      run2 == Cmd(<<"ls-remote", repository, "HEAD">>, "", head.ok)
  IN
  IF symref.ok /\ Len(symref.lines) >= 2
  THEN DefaultBranchResult(
         ResolvedSha(FirstField(symref.lines[2]), SecondField(symref.lines[1])),
         "", <<run1>>)
  ELSE IF ~symref.ok
  THEN DefaultBranchResult(ResNull, "ProcessError", <<run1>>)
  ELSE IF head.ok
  THEN DefaultBranchResult(
         ResolvedSha(IF head.lines = <<>> THEN "" ELSE FirstField(head.lines[1]), NULL),
         "", <<run1, run2>>)
  ELSE DefaultBranchResult(ResNull, "ProcessError", <<run1, run2>>)

\* symref and head are what the two ls-remote runs answer: [ok, lines]
resolveDefaultBranch(repository, symref, head) ==
  LET run1 == Cmd(<<"ls-remote", "--symref", repository, "HEAD">>, "", symref.ok)
      run2 == Cmd(<<"ls-remote", repository, "HEAD">>, "", head.ok)
  IN
  IF symref.ok /\ Len(symref.lines) >= 2
  THEN DefaultBranchResult(
         ResolvedSha(FirstField(symref.lines[2]), SecondField(symref.lines[1])),
         "", <<run1>>)
  ELSE IF head.ok
  THEN DefaultBranchResult(
         ResolvedSha(IF head.lines = <<>> THEN "" ELSE FirstField(head.lines[1]), NULL),
         "", <<run1, run2>>)
  ELSE DefaultBranchResult(ResNull, "ProcessError", <<run1, run2>>)

\* ---- fetch ----

\* mutant of FetchCmd: the task clones whether cwd exists or not
FetchCmdAlwaysClone(repository, dir, exists, ok) == Cmd(<<"clone", repository, dir>>, "", ok)

\* the task fetch() runs under the lock: pull when cwd exists, clone otherwise
FetchCmd(repository, dir, exists, ok) ==
  IF exists THEN Cmd(<<"pull">>, dir, ok) ELSE Cmd(<<"clone", repository, dir>>, "", ok)

\* ---- hasArchiveCapability ----

\* mutant of NeedsArchiveProbe: the protocol is not looked at
NeedsArchiveProbeAnyProtocol(target, cache) ==
  target.hostname # NULL /\ target.hostname \notin DOMAIN cache

NeedsArchiveProbe(target, cache) ==
  target.protocol = "ssh:" /\ target.hostname # NULL /\ target.hostname \notin DOMAIN cache

ArchiveProbe(target, ok) ==
  Cmd(<<"archive", "--remote=" \o target.repository, "HEAD", "<now>">>, "", ok)

\* config.getTemp(crypto.hash(repository))
GetTemp(repository) == "/tmp/.yarn-git/" \o repository

\* ---- getFile ----

Filenames == { "package.json" }

\* a manifest, a manifest that already holds provenance fields, text that is not
\* JSON, the JSON text of null, an empty file
FileContents ==
  { "{\"name\": \"m\", \"version\": \"1.2.3\"}",
    "{\"name\": \"m\", \"_uid\": \"stale\", \"_remote\": {\"type\": \"tarball\"}}",
    "{",
    "null",
    "" }

\* what a failed git archive or git show says
FailureMessages ==
  { "fatal: pathspec 'package.json' did not match any files",
    "fatal: Could not read from remote repository." }

\* message.indexOf(part) >= 0
Includes(message, part) ==
  \E i \in 1..(Len(message) - Len(part) + 1) : SubSeq(message, i, i + Len(part) - 1) = part

NoFile == [kind |-> "none", value |-> NULL, message |-> ""]

\* getFile resolved with a string or with false, or rejected; message is what
\* the git command failed with, "" when it succeeded or was not run
FileResult(kind, value, message) == [kind |-> kind, value |-> value, message |-> message]

\* mutant of getFileFromArchive: every failure is answered false
getFileFromArchiveAlwaysFalse(ok, content, message) ==
  IF ok THEN FileResult("string", content, "") ELSE FileResult("false", FALSE, message)

\* _getFileFromArchive, given what git archive answered
getFileFromArchive(ok, content, message) ==
  IF ok THEN FileResult("string", content, "")
  ELSE IF Includes(message, "did not match any files") THEN FileResult("false", FALSE, message)
  ELSE FileResult("error", message, message)

\* mutant of getFileFromClone: a failure of git show is rethrown
getFileFromCloneRethrow(isFetched, ok, content, message) ==
  IF ~isFetched THEN FileResult("error", "Repo not fetched", "")
  ELSE IF ok THEN FileResult("string", content, "")
  ELSE FileResult("error", message, message)

\* _getFileFromClone, given this.fetched and what git show answered
getFileFromClone(isFetched, ok, content, message) ==
  IF ~isFetched THEN FileResult("error", "Repo not fetched", "")
  ELSE IF ok THEN FileResult("string", content, "")
  ELSE FileResult("false", FALSE, message)

\* ---- GitResolver ----

NoLock == [name |-> NULL, version |-> NULL, _uid |-> NULL, _remote |-> NULL]

NoManifest == NoLock

Remote(resolved, type, reference, commit, registryName) ==
  [resolved |-> resolved, type |-> type, reference |-> reference, hash |-> commit,
   registry |-> registryName]

Manifest(name, versionText, uid, remoteField) ==
  [name |-> name, version |-> versionText, _uid |-> uid, _remote |-> remoteField]

\* the keys of registries, in order
Registries == << "npm", "yarn" >>

\* registries[registry].filename
RegistryFilename(registryName) == IF registryName = "npm" THEN "package.json" ELSE "yarn.json"

\* this.registry first, then the other keys of registries
RegistryOrder(first) == <<first>> \o SelectSeq(Registries, LAMBDA r : r # first)

\* what JSON.parse answers: a SyntaxError, null or an object
Json(error, isNull, value) == [error |-> error, isNull |-> isNull, value |-> value]

\* JSON.parse(text) for the texts of FileContents
JSONparse(text) ==
  CASE text = "{\"name\": \"m\", \"version\": \"1.2.3\"}" ->
         Json("", FALSE, Manifest("m", "1.2.3", NULL, NULL))
    [] text = "{\"name\": \"m\", \"_uid\": \"stale\", \"_remote\": {\"type\": \"tarball\"}}" ->
         Json("", FALSE, Manifest("m", NULL, "stale", Remote(NULL, "tarball", NULL, NULL, NULL)))
    [] text = "null" -> Json("", TRUE, NULL)
    [] OTHER -> Json("SyntaxError", FALSE, NULL)

\* guessName(url): the last segment of the url, without .git
guessName(location) ==
  removeSuffix(Split(location, "/")[Len(Split(location, "/"))], ".git")

\* mutant of provenance: the fields of the file are kept where it has them
provenanceKeep(json, location, commit, registryName) ==
  IF json._uid # NULL THEN json
  ELSE [json EXCEPT !._uid = commit,
                    !._remote = Remote(location \o "#" \o commit, "git", location, commit,
                                       registryName)]

\* json._uid = commit; json._remote = {resolved, type, reference, hash, registry}
provenance(json, location, commit, registryName) ==
  [json EXCEPT !._uid = commit,
               !._remote = Remote(location \o "#" \o commit, "git", location, commit,
                                  registryName)]

\* what tryRegistry answers for a file that is there: the manifest or an error
Tried(error, value) == [error |-> error, value |-> value]

tryRegistryParsed(json, location, commit, registryName) ==
  IF json.error # "" THEN Tried(json.error, NULL)
  ELSE IF json.isNull THEN Tried("TypeError", NULL)
  ELSE Tried("", provenance(json.value, location, commit, registryName))

\* the manifest resolve() returns when no registry file is found
defaultManifest(location, commit) ==
  provenance(Manifest(guessName(location), "0.0.0", NULL, NULL), location, commit, "npm")

\* no resolver exists
NoResolver ==
  /\ url = ""
  /\ locked = NoLock
  /\ registry = "npm"
  /\ toTry = <<>>
  /\ manifest = NoManifest

\* no sessions run side by side
NoConcurrency ==
  /\ sessions = <<>>
  /\ lockQueue = <<>>
  /\ dirs = {}

\* hasArchiveCapability is not called outside a session
NoCapabilityCalls ==
  /\ sequential = TRUE
  /\ capabilityCalls = <<>>
  /\ cacheWrites = <<>>

\* no function is being called
NoCall == [fn |-> "", arg |-> NULL]

NotReturned == [done |-> FALSE, value |-> NULL]

Returned(value) == [done |-> TRUE, value |-> value]

(***************************************************************************)
(* Init: the state the constructor leaves (new Git(config, gitUrl, hash)). *)
(***************************************************************************)

\* The resolver does not read the URL: every URL is run against the remotes
\* of at most one line, and one URL against every remote.
Init ==
  /\ \/ url0 \in Urls /\ remote \in { l \in Listings : Len(l) <= 1 }
     \/ url0 = GitUrl("file:", NULL, "/srv/repos/m.git") /\ remote \in Listings
  /\ version \in Versions
  /\ gitUrl = url0
  /\ hash = version
  /\ ref = version
  /\ supportsArchive = FALSE
  /\ fetched = FALSE
  /\ cwd = GetTemp(url0.repository)
  /\ pc = "init"
  /\ err = ""
  /\ errArgs = <<>>
  /\ refs = <<>>
  /\ resolvedResult = ResNull
  /\ shaToResolve = NULL
  /\ cmds = <<>>
  /\ supportsArchiveCache = [h \in {"github.com"} |-> FALSE]
  /\ cwdExists \in BOOLEAN
  /\ file = NoFile
  /\ NoResolver
  /\ NoConcurrency
  /\ NoCapabilityCalls
  /\ call = NoCall
  /\ returned = NotReturned

(***************************************************************************)
(* init(), one action per awaited step.                                    *)
(***************************************************************************)

\* mutant of Fail: the error is recorded and init() goes on
FailAndGoOn(e) ==
  /\ err' = e
  /\ errArgs' = <<>>
  /\ pc' = "setRefRemote"

\* init() rejects with error e: nothing else of the session changes
Fail(e) ==
  /\ err' = e
  /\ errArgs' = <<>>
  /\ pc' = "failed"

RECURSIVE Join(_, _)
\* names.join(separator)
Join(names, separator) ==
  IF names = <<>> THEN ""
  ELSE IF Len(names) = 1 THEN names[1]
  ELSE names[1] \o separator \o Join(Tail(names), separator)

\* Object.keys(refs)
Keys(table) == [i \in 1..Len(table) |-> table[i].name]

\* mutant of couldntFindMatch: the message names the version only
couldntFindMatchVersionOnly(name, table, repository) == <<name>>

\* reporter.lang('couldntFindMatch', version, Object.keys(refs).join(','), repository)
couldntFindMatch(name, table, repository) ==
  <<name, Join(Keys(table), ","), repository>>

\* this.gitUrl = await Git.secureGitUrl(this.gitUrl, this.hash, this.reporter)
Secure ==
  /\ pc = "init"
  /\ UNCHANGED otherVars
  /\ \E httpsOk \in BOOLEAN, httpOk \in BOOLEAN :
       LET r == secureGitUrl(gitUrl, hash, httpsOk, httpOk) IN
       \* an answer that is not asked for is not an input
       /\ Len(r.probes) < 2 => httpOk
       /\ Len(r.probes) < 1 => httpsOk
       /\ cmds' = cmds \o r.probes
       /\ IF r.error # ""
          THEN Fail(r.error) /\ UNCHANGED gitUrl
          ELSE gitUrl' = r.url /\ pc' = "setRefRemote" /\ UNCHANGED << err, errArgs >>
  /\ UNCHANGED << hash, ref, supportsArchive, fetched, cwd, refs, resolvedResult,
                  shaToResolve, supportsArchiveCache, cwdExists, remote, url0, version >>

\* setRef after resolveVersion has answered (or suspended on a callback); the
\* table it was called with is refs'
SetRefWith(result) ==
  /\ resolvedResult' = result
  /\ CASE result.kind = "sha" ->
            /\ hash' = result.sha
            /\ ref' = IF result.ref = NULL THEN "" ELSE result.ref
            /\ pc' = "capability"
            /\ UNCHANGED << err, errArgs, shaToResolve >>
       [] result.kind = "null" ->
            /\ err' = "MessageError"
            /\ errArgs' = couldntFindMatch(hash, refs', gitUrl.repository)
            /\ pc' = "failed"
            /\ UNCHANGED << hash, ref, shaToResolve >>
       [] result.kind = "resolveCommit" ->
            /\ pc' = "resolveCommit"
            /\ shaToResolve' = result.sha
            /\ UNCHANGED << hash, ref, err, errArgs >>
       [] result.kind = "resolveDefaultBranch" ->
            /\ pc' = "resolveDefaultBranch"
            /\ UNCHANGED << hash, ref, err, errArgs, shaToResolve >>

\* setRefRemote(): git ls-remote --tags --heads, parseRefs, setRef(refs)
SetRefRemote ==
  /\ pc = "setRefRemote"
  /\ UNCHANGED otherVars
  /\ \E ok \in BOOLEAN :
       /\ cmds' = Append(cmds, Cmd(<<"ls-remote", "--tags", "--heads", gitUrl.repository>>, "", ok))
       /\ IF ok
          THEN /\ refs' = parseRefs(remote)
               /\ \E result \in {resolveVersion(hash, refs')} : SetRefWith(result)
          ELSE /\ Fail("ProcessError")
               /\ UNCHANGED << refs, resolvedResult, hash, ref, shaToResolve >>
  /\ UNCHANGED << gitUrl, supportsArchive, fetched, cwd, supportsArchiveCache,
                  cwdExists, remote, url0, version >>

\* the SHAs git rev-list -n 1 can print for arg in the clone: a commit that
\* arg abbreviates, or the commit of the tag named arg
RevListAnswers(arg) ==
  { c \in Commits : StartsWith(c, arg) }
    \cup (IF HasRef(refs, REF_TAG_PREFIX \o arg) THEN {RefSha(refs, REF_TAG_PREFIX \o arg)} ELSE {})

\* resolveCommit(shaToResolve): fetch(), then git rev-list in cwd; any failure is
\* answered null and resolveVersion goes on with its next step
ResolveCommit ==
  /\ pc = "resolveCommit"
  /\ UNCHANGED otherVars
  /\ UNCHANGED refs
  /\ \E fetchOk \in BOOLEAN, revOk \in BOOLEAN, sha \in RevListAnswers(shaToResolve) \cup {NULL} :
       LET fetchRun == FetchCmd(gitUrl.repository, cwd, cwdExists, fetchOk)
           revRun   == Cmd(<<"rev-list", "-n", "1", "--no-abbrev-commit", "--format=oneline",
                             shaToResolve>>, cwd, revOk)
       IN
       /\ ~fetchOk => ~revOk
       /\ revOk <=> sha # NULL
       /\ fetched' = (fetched \/ fetchOk)
       /\ cwdExists' = (cwdExists \/ fetchOk)
       /\ cmds' = IF fetchOk THEN cmds \o <<fetchRun, revRun>> ELSE Append(cmds, fetchRun)
       /\ IF revOk
          THEN SetRefWith(ResolvedSha(FirstField(sha \o " Fix ..."), NULL))
          ELSE \E result \in {resolveVersionIn(Tail(VERSION_RESOLUTION_STEPS), hash, refs)} :
                 SetRefWith(result)
  /\ UNCHANGED << gitUrl, supportsArchive, cwd, supportsArchiveCache, remote, url0, version >>

\* git.resolveDefaultBranch(), whose answer resolveVersion returns as it is
ResolveDefaultBranch ==
  /\ pc = "resolveDefaultBranch"
  /\ UNCHANGED otherVars
  /\ UNCHANGED refs
  /\ \E symOk \in BOOLEAN, symLines \in SymrefOutputs,
        headOk \in BOOLEAN, headLines \in HeadOutputs :
       LET r == resolveDefaultBranch(gitUrl.repository,
                                     [ok |-> symOk, lines |-> symLines],
                                     [ok |-> headOk, lines |-> headLines])
       IN
       /\ cmds' = cmds \o r.runs
       /\ IF r.error # ""
          THEN Fail(r.error) /\ UNCHANGED << hash, ref, resolvedResult, shaToResolve >>
          ELSE \E result \in {r.result} : SetRefWith(result)
  /\ UNCHANGED << gitUrl, supportsArchive, fetched, cwd, supportsArchiveCache,
                  cwdExists, remote, url0, version >>

\* if (this.ref !== '' && (await Git.hasArchiveCapability(this.gitUrl)))
\* supports: the probe failed with "did not match any files"
CheckCapabilities ==
  /\ pc = "capability"
  /\ UNCHANGED otherVars
  /\ \E supports \in BOOLEAN :
       LET probe  == ref # "" /\ NeedsArchiveProbe(gitUrl, supportsArchiveCache)
           cached == ref # "" /\ gitUrl.protocol = "ssh:" /\ gitUrl.hostname # NULL /\ ~probe
           answer == IF probe THEN supports
                     ELSE IF cached THEN supportsArchiveCache[gitUrl.hostname]
                     ELSE FALSE
       IN
       /\ ~probe => ~supports
       /\ cmds' = IF probe THEN Append(cmds, ArchiveProbe(gitUrl, FALSE)) ELSE cmds
       /\ supportsArchiveCache' =
            IF probe
            THEN [h \in DOMAIN supportsArchiveCache \cup {gitUrl.hostname} |->
                    IF h = gitUrl.hostname THEN supports ELSE supportsArchiveCache[h]]
            ELSE supportsArchiveCache
       /\ IF answer
          THEN supportsArchive' = TRUE /\ pc' = "done"
          ELSE pc' = "fetch" /\ UNCHANGED supportsArchive
  /\ UNCHANGED << gitUrl, hash, ref, fetched, cwd, err, errArgs, refs, resolvedResult,
                  shaToResolve, cwdExists, remote, url0, version >>

\* mutant of InitFetch: init() returns without fetching
InitFetchSkipped ==
  /\ pc = "fetch"
  /\ pc' = "done"
  /\ UNCHANGED << gitUrl, hash, ref, supportsArchive, fetched, cwd, err, errArgs, refs,
                  resolvedResult, shaToResolve, cmds, supportsArchiveCache, cwdExists,
                  remote, url0, version, otherVars >>

\* await this.fetch(), the else branch of init()
InitFetch ==
  /\ pc = "fetch"
  /\ UNCHANGED otherVars
  /\ \E ok \in BOOLEAN :
       /\ cmds' = Append(cmds, FetchCmd(gitUrl.repository, cwd, cwdExists, ok))
       /\ IF ok
          THEN fetched' = TRUE /\ cwdExists' = TRUE /\ pc' = "done" /\ UNCHANGED << err, errArgs >>
          ELSE Fail("ProcessError") /\ UNCHANGED << fetched, cwdExists >>
  /\ UNCHANGED << gitUrl, hash, ref, supportsArchive, cwd, refs, resolvedResult,
                  shaToResolve, supportsArchiveCache, remote, url0, version >>

\* getFile(filename), given what the git command it runs answers
getFileAnswered(filename, ok, content, message) ==
  IF supportsArchive
  THEN /\ cmds' = Append(cmds, Cmd(<<"archive", "--remote=" \o gitUrl.repository, ref,
                                    filename>>, "", ok))
       /\ file' = getFileFromArchive(ok, content, message)
  ELSE /\ cmds' = IF fetched
                  THEN Append(cmds, Cmd(<<"show", hash \o ":" \o filename>>, cwd, ok))
                  ELSE cmds
       /\ file' = getFileFromClone(fetched, ok, content, message)

\* getFile(filename), called on a session once init() has returned
GetFile ==
  /\ pc = "done"
  /\ \E filename \in Filenames, ok \in BOOLEAN, content \in FileContents,
        message \in FailureMessages :
       getFileAnswered(filename, ok, content, message)
  /\ pc' = "gotFile"
  /\ UNCHANGED << gitUrl, hash, ref, supportsArchive, fetched, cwd, err, errArgs, refs,
                  resolvedResult, shaToResolve, supportsArchiveCache, cwdExists, remote,
                  url0, version, callVars, resolverVars, concVars, capabilityVars >>

\* mutant of ArchiveCmd: the local archive is not run in cwd
ArchiveCmdOutsideCwd(ok) ==
  IF supportsArchive
  THEN Cmd(<<"archive", "--remote=" \o gitUrl.repository, ref>>, "", ok)
  ELSE Cmd(<<"archive", hash>>, "", ok)

\* the git archive that archive(dest) and clone(dest) run: on the remote with
\* the ref when the session supports it, in cwd with the hash otherwise
ArchiveCmd(ok) ==
  IF supportsArchive
  THEN Cmd(<<"archive", "--remote=" \o gitUrl.repository, ref>>, "", ok)
  ELSE Cmd(<<"archive", hash>>, cwd, ok)

\* what archive(dest) resolves with, the hash of the stream, or rejects with
ArchiveResult(ok, message) ==
  IF ok THEN FileResult("string", "<hash of the archive>", "")
  ELSE FileResult("error", message, message)

\* what clone(dest) resolves with, nothing, or rejects with
CloneResult(ok, message) ==
  IF ok THEN FileResult("void", NULL, "") ELSE FileResult("error", message, message)

\* archive(dest), called on a session once init() has returned
Archive ==
  /\ pc = "done"
  /\ \E ok \in BOOLEAN, message \in FailureMessages :
       /\ cmds' = Append(cmds, ArchiveCmd(ok))
       /\ file' = ArchiveResult(ok, message)
  /\ pc' = "archived"
  /\ UNCHANGED << gitUrl, hash, ref, supportsArchive, fetched, cwd, err, errArgs, refs,
                  resolvedResult, shaToResolve, supportsArchiveCache, cwdExists, remote,
                  url0, version, callVars, resolverVars, concVars, capabilityVars >>

\* clone(dest), called on a session once init() has returned
Clone ==
  /\ pc = "done"
  /\ \E ok \in BOOLEAN, message \in FailureMessages :
       /\ cmds' = Append(cmds, ArchiveCmd(ok))
       /\ file' = CloneResult(ok, message)
  /\ pc' = "cloned"
  /\ UNCHANGED << gitUrl, hash, ref, supportsArchive, fetched, cwd, err, errArgs, refs,
                  resolvedResult, shaToResolve, supportsArchiveCache, cwdExists, remote,
                  url0, version, callVars, resolverVars, concVars, capabilityVars >>

Next ==
  \/ Secure
  \/ SetRefRemote
  \/ ResolveCommit
  \/ ResolveDefaultBranch
  \/ CheckCapabilities
  \/ InitFetch
  \/ GetFile
  \/ Archive
  \/ Clone

Spec == Init /\ [][Next]_vars

(***************************************************************************)
(* GitResolver.resolve(): the lockfile entry, the session and its init(),  *)
(* then one tryRegistry per registry.                                      *)
(***************************************************************************)

ResolverUrls ==
  { "git://github.com/yarnpkg/yarn.git",
    "git+ssh://git@gitlab.tld:10202/p/m.git",
    "/srv/repos/m.git",
    "github:yarn" }

ResolverVersions == { "", "main", "003ae60", "unknown" }

LockedManifests ==
  { Manifest("m", "1.0.0", "8a41a314e23dc566a6b7e73c757a10d13e3320cf",
             Remote("git://github.com/yarnpkg/yarn.git#8a41a314e23dc566a6b7e73c757a10d13e3320cf",
                    "git", "git://github.com/yarnpkg/yarn.git",
                    "8a41a314e23dc566a6b7e73c757a10d13e3320cf", "npm")) }

\* the state the GitResolver constructor leaves: no session yet
ResolveInit ==
  /\ url \in ResolverUrls
  /\ version \in ResolverVersions
  /\ locked \in LockedManifests \cup {NoLock}
  /\ registry \in { Registries[i] : i \in 1..Len(Registries) }
  /\ toTry = RegistryOrder(registry)
  /\ manifest = NoManifest
  /\ remote \in { l \in Listings : Len(l) <= 1 }
  /\ cwdExists \in BOOLEAN
  /\ url0 = GitUrl(NULL, NULL, NULL)
  /\ gitUrl = url0
  /\ hash = NULL
  /\ ref = NULL
  /\ supportsArchive = FALSE
  /\ fetched = FALSE
  /\ cwd = NULL
  /\ pc = "resolve"
  /\ err = ""
  /\ errArgs = <<>>
  /\ refs = <<>>
  /\ resolvedResult = ResNull
  /\ shaToResolve = NULL
  /\ cmds = <<>>
  /\ supportsArchiveCache = [h \in {"github.com"} |-> FALSE]
  /\ file = NoFile
  /\ NoConcurrency
  /\ NoCapabilityCalls
  /\ call = NoCall
  /\ returned = NotReturned

\* new Git(config, gitUrl, this.hash)
Construct(normalized) ==
  /\ url0' = normalized
  /\ gitUrl' = normalized
  /\ hash' = version
  /\ ref' = version
  /\ supportsArchive' = FALSE
  /\ fetched' = FALSE
  /\ cwd' = GetTemp(normalized.repository)
  /\ pc' = "init"
  /\ UNCHANGED << err, errArgs >>

\* mutant of Resolve: the lockfile entry is not looked at
ResolveIgnoringLock ==
  /\ pc = "resolve"
  /\ UNCHANGED manifest
  /\ IF npmUrlToGitUrl(url).error # ""
     THEN /\ Fail(npmUrlToGitUrl(url).error)
          /\ UNCHANGED << url0, gitUrl, hash, ref, supportsArchive, fetched, cwd >>
     ELSE Construct(npmUrlToGitUrl(url).url)
  /\ UNCHANGED << refs, resolvedResult, shaToResolve, cmds, supportsArchiveCache, cwdExists,
                  remote, version, file, url, locked, registry, toTry, callVars, concVars, capabilityVars >>

\* resolve() up to its first await: the lockfile entry, or npmUrlToGitUrl and
\* the session
Resolve ==
  /\ pc = "resolve"
  /\ IF locked # NoLock
     THEN /\ manifest' = locked
          /\ pc' = "resolved"
          /\ UNCHANGED << url0, gitUrl, hash, ref, supportsArchive, fetched, cwd, err, errArgs >>
     ELSE /\ UNCHANGED manifest
          /\ IF npmUrlToGitUrl(url).error # ""
             THEN /\ Fail(npmUrlToGitUrl(url).error)
                  /\ UNCHANGED << url0, gitUrl, hash, ref, supportsArchive, fetched, cwd >>
             ELSE Construct(npmUrlToGitUrl(url).url)
  /\ UNCHANGED << refs, resolvedResult, shaToResolve, cmds, supportsArchiveCache, cwdExists,
                  remote, version, file, url, locked, registry, toTry, callVars, concVars, capabilityVars >>

\* what resolve() does with the answer of one getFile
TryRegistryAnswered(answer) ==
  IF answer.kind = "error"
  THEN Fail("ProcessError") /\ UNCHANGED manifest
  ELSE IF answer.kind = "false" \/ answer.value = ""
  THEN /\ UNCHANGED << err, errArgs >>
       /\ IF Len(toTry) = 1
          THEN manifest' = defaultManifest(url, hash) /\ pc' = "resolved"
          ELSE UNCHANGED << manifest, pc >>
  ELSE LET tried == tryRegistryParsed(JSONparse(answer.value), url, hash, Head(toTry)) IN
       IF tried.error # ""
       THEN Fail(tried.error) /\ UNCHANGED manifest
       ELSE manifest' = tried.value /\ pc' = "resolved" /\ UNCHANGED << err, errArgs >>

\* tryRegistry(registry) for the next registry; after the last one resolve()
\* returns the default manifest
TryRegistry ==
  /\ pc = "done" /\ toTry # <<>>
  /\ \E ok \in BOOLEAN, content \in FileContents, message \in FailureMessages :
       /\ getFileAnswered(RegistryFilename(Head(toTry)), ok, content, message)
       /\ \E answer \in {file'} : TryRegistryAnswered(answer)
  /\ toTry' = Tail(toTry)
  /\ UNCHANGED << gitUrl, hash, ref, supportsArchive, fetched, cwd, refs, resolvedResult,
                  shaToResolve, supportsArchiveCache, cwdExists, remote, url0, version,
                  url, locked, registry, callVars, concVars, capabilityVars >>

ResolveNext ==
  \/ Resolve
  \/ Secure
  \/ SetRefRemote
  \/ ResolveCommit
  \/ ResolveDefaultBranch
  \/ CheckCapabilities
  \/ InitFetch
  \/ TryRegistry

ResolveSpec == ResolveInit /\ [][ResolveNext]_vars

(***************************************************************************)
(* The exported functions, called on their own: the argument is drawn by   *)
(* CallInit and one action applies the function to it.                     *)
(***************************************************************************)

MaxLines == 3

\* lines of a ref listing: an annotated tag, its peeled line, a lightweight tag,
\* a branch and a merge-request ref
ListingLines ==
  { RefLines[8], RefLines[9], RefLines[12], RefLines[5],
    "70e76d174b0c7d001d2cd608a16c94498496e92d refs/merge-requests/38/head" }

\* every sequence of at most n elements of S
SeqsUpTo(S, n) == UNION { [1..k -> S] : k \in 0..n }

ParseRefsCalls == { [fn |-> "parseRefs", arg |-> lines] : lines \in SeqsUpTo(ListingLines, MaxLines) }

\* no session exists: its variables hold the values of a session not yet started
NoSession ==
  /\ url0 = GitUrl("file:", NULL, "/srv/repos/m.git")
  /\ gitUrl = url0
  /\ remote = <<>>
  /\ version = ""
  /\ hash = ""
  /\ ref = ""
  /\ supportsArchive = FALSE
  /\ fetched = FALSE
  /\ cwd = GetTemp(url0.repository)
  /\ pc = "none"
  /\ err = ""
  /\ errArgs = <<>>
  /\ refs = <<>>
  /\ resolvedResult = ResNull
  /\ shaToResolve = NULL
  /\ cmds = <<>>
  /\ supportsArchiveCache = [h \in {"github.com"} |-> FALSE]
  /\ cwdExists = FALSE
  /\ file = NoFile

\* the patterns of the tests of isGitPattern and npmUrlToGitUrl, and some more
Patterns ==
  { "git+https://github.com/npm-opam/ocamlfind.git",
    "https://github.com/npm-opam/ocamlfind.git",
    "git://github.com/npm-opam/ocamlfind.git",
    "git+ssh://git@gitlab.mydomain.tld:10202/project-name/my-package.git",
    "git+ssh://git@github.com/npm-opam/ocamlfind.git",
    "git+ssh://scp-host-nickname:npm-opam/ocamlfind.git",
    "git+ssh://user@scp-host-nickname:npm-opam/ocamlfind.git",
    "git+ssh://git@bitbucket.org:team/repo.git",
    "git@bitbucket.org/team/repo.git",
    "git@bitbucket.org:team/repo.git",
    "github:npm-opam/ocamlfind.git#v1.2.3",
    "github:npm-opam/ocamlfind",
    "gitlab:npm-opam/ocamlfind",
    "bitbucket:team/repo.git",
    "user/repo",
    "user/repo#v1.2.3",
    "package@git@bitbucket.org:team/repo.git",
    "github:yarn",
    "http://example.com/123.git",
    "ftp://example.com/123.git",
    "git+ftp://example.com/123",
    "file:///srv/repos/m.git",
    "/srv/repos/m.git",
    "https://example.com/user/repo",
    "left-pad" }

HostedSchemes == { "http://", "https://" }

HostedHosts == { "github.com", "gitlab.com", "bitbucket.org", "bitbucket.com" }

HostedPaths ==
  { "", "/", "/user", "/user/repo", "/user/repo/", "/user/repo/archive/x.tar.gz",
    "/user/repo?tab=readme", "/user/repo?path=src/util" }

HostedUrls == { s \o h \o q : s \in HostedSchemes, h \in HostedHosts, q \in HostedPaths }

PatternCalls ==
  { [fn |-> f, arg |-> pattern] :
      f \in {"isGitPattern", "npmUrlToGitUrl"}, pattern \in Patterns \cup HostedUrls }

(* Git.spawn(args, opts): the environment handed to child.spawn. The module's
   env is the three defaults with process.env spread over them, and spawn
   puts it over whatever opts carries. Values are the strings the subprocess
   reads (0 reaches it as "0"). *)
EnvDefaults ==
  [GIT_ASKPASS |-> "", GIT_TERMINAL_PROMPT |-> "0",
   GIT_SSH_COMMAND |-> "ssh -oBatchMode=yes"]

\* {...a, ...b}
Spread(a, b) ==
  [k \in DOMAIN a \cup DOMAIN b |-> IF k \in DOMAIN b THEN b[k] ELSE a[k]]

envInheritedFirst(processEnv) == Spread(processEnv, EnvDefaults)
env(processEnv) == Spread(EnvDefaults, processEnv)

spawn(args, opts, processEnv) ==
  [command |-> "git", args |-> args,
   opts |-> Spread(opts, [env |-> env(processEnv)])]

\* values process.env may hold for a variable
InheritedValues ==
  [GIT_ASKPASS |-> {"/usr/lib/ssh/ssh-askpass"},
   GIT_TERMINAL_PROMPT |-> {"0", "1"},
   GIT_SSH_COMMAND |-> {"ssh -i /home/ci/key"},
   PATH |-> {"/usr/bin"}]

ProcessEnvs ==
  UNION { [names -> UNION { InheritedValues[n] : n \in names }] :
            names \in SUBSET DOMAIN InheritedValues }

InheritedEnvs ==
  { e \in ProcessEnvs : \A n \in DOMAIN e : e[n] \in InheritedValues[n] }

SpawnOpts ==
  { [cwd |-> "/tmp/yarn--1"],
    [cwd |-> "/tmp/yarn--1", env |-> [GIT_TERMINAL_PROMPT |-> "1"]] }

SpawnCalls ==
  { [fn |-> "spawn", arg |-> [args |-> << "pull" >>, opts |-> o, processEnv |-> e]] :
      o \in SpawnOpts, e \in InheritedEnvs }

CallInit ==
  /\ NoSession
  /\ NoResolver
  /\ NoConcurrency
  /\ NoCapabilityCalls
  /\ \/ call \in ParseRefsCalls
     \/ call \in PatternCalls
     \/ call \in SpawnCalls
  /\ returned = NotReturned

\* parseRefs(stdout), stdout given as its lines
CallParseRefs ==
  /\ call.fn = "parseRefs" /\ ~returned.done
  /\ returned' = Returned(parseRefs(call.arg))
  /\ UNCHANGED << call, sessionVars, resolverVars, concVars, capabilityVars >>

\* Git.isGitPattern(pattern)
CallIsGitPattern ==
  /\ call.fn = "isGitPattern" /\ ~returned.done
  /\ returned' = Returned(isGitPattern(call.arg))
  /\ UNCHANGED << call, sessionVars, resolverVars, concVars, capabilityVars >>

\* Git.npmUrlToGitUrl(pattern, reporter)
CallNpmUrlToGitUrl ==
  /\ call.fn = "npmUrlToGitUrl" /\ ~returned.done
  /\ returned' = Returned(npmUrlToGitUrl(call.arg))
  /\ UNCHANGED << call, sessionVars, resolverVars, concVars, capabilityVars >>

\* Git.spawn(args, opts)
CallSpawn ==
  /\ call.fn = "spawn" /\ ~returned.done
  /\ returned' = Returned(spawn(call.arg.args, call.arg.opts, call.arg.processEnv))
  /\ UNCHANGED << call, sessionVars, resolverVars, concVars, capabilityVars >>

CallNext ==
  \/ CallParseRefs
  \/ CallIsGitPattern
  \/ CallNpmUrlToGitUrl
  \/ CallSpawn

CallSpec == CallInit /\ [][CallNext]_vars

(***************************************************************************)
(* Sessions side by side.  Each session is one Git object running init(); *)
(* the sessions share fs.lockQueue and the temp directories.  A step is    *)
(* what a session does between two awaits.  fs.lockQueue is a              *)
(* BlockingQueue: tasks pushed under one key run one at a time in the      *)
(* order pushed, tasks under different keys run side by side.              *)
(***************************************************************************)

MaxSessions == 2

SessionIds == 1..MaxSessions

ConcUrls ==
  { GitUrl("git:", "github.com", "git://github.com/yarnpkg/yarn.git"),
    GitUrl("https:", "github.com", "https://github.com/yarnpkg/yarn.git"),
    GitUrl("http:", "example.com", "http://example.com/123.git"),
    GitUrl("ssh:", "gitlab.tld", "ssh://git@gitlab.tld:10202/p/m.git") }

\* no commit given, and a commit SHA
ConcVersions == { "", "eaa56cb34863810060abbec2d755ba51508afedc" }

\* new Git(config, gitUrl, hash)
NewSession(u, h) ==
  [gitUrl |-> u, hash |-> h, ref |-> h, supportsArchive |-> FALSE, fetched |-> FALSE,
   cwd |-> GetTemp(u.repository), pc |-> "init", err |-> "", key |-> ""]

\* every key a task can be pushed under
LockKeys ==
  { u.repository : u \in ConcUrls } \cup
  { replaceProtocol(u, "https:").repository : u \in ConcUrls }

ConcInit ==
  /\ NoSession
  /\ NoResolver
  /\ NoCapabilityCalls
  /\ call = NoCall
  /\ returned = NotReturned
  /\ sessions \in [SessionIds -> { NewSession(u, h) : u \in ConcUrls, h \in ConcVersions }]
  /\ lockQueue = [k \in LockKeys |-> <<>>]
  /\ dirs \in SUBSET { GetTemp(u.repository) : u \in ConcUrls }

ConcFrame == UNCHANGED << sessionVars, callVars, resolverVars, capabilityVars >>

\* the session once secureGitUrl has answered
Secured(session, httpsOk, httpOk) ==
  IF secureGitUrl(session.gitUrl, session.hash, httpsOk, httpOk).error # ""
  THEN [session EXCEPT
          !.pc = "failed",
          !.err = secureGitUrl(session.gitUrl, session.hash, httpsOk, httpOk).error]
  ELSE [session EXCEPT
          !.pc = "setRefRemote",
          !.gitUrl = secureGitUrl(session.gitUrl, session.hash, httpsOk, httpOk).url]

\* init(): this.gitUrl = await Git.secureGitUrl(this.gitUrl, this.hash, this.reporter)
SessionSecure ==
  \E i \in SessionIds, httpsOk \in BOOLEAN, httpOk \in BOOLEAN :
    /\ sessions[i].pc = "init"
    /\ sessions' = [sessions EXCEPT ![i] = Secured(sessions[i], httpsOk, httpOk)]
    /\ UNCHANGED << lockQueue, dirs >>
    /\ ConcFrame

\* init(): await this.setRefRemote(), then the capability check; a session
\* that cannot use git archive goes on to fetch()
SessionSetRefRemote ==
  \E i \in SessionIds, ok \in BOOLEAN, capable \in BOOLEAN :
    /\ sessions[i].pc = "setRefRemote"
    /\ capable => sessions[i].gitUrl.protocol = "ssh:" /\ sessions[i].gitUrl.hostname # NULL
    /\ ~ok => ~capable
    /\ sessions' =
         [sessions EXCEPT ![i] =
            IF ~ok THEN [@ EXCEPT !.pc = "failed", !.err = "ProcessError"]
            ELSE IF capable THEN [@ EXCEPT !.pc = "done", !.supportsArchive = TRUE]
            ELSE [@ EXCEPT !.pc = "fetch"]]
    /\ UNCHANGED << lockQueue, dirs >>
    /\ ConcFrame

\* the key fetch() pushes its task under
LockKey(session) == session.gitUrl.repository

\* fetch(): fs.lockQueue.push(gitUrl.repository, task). The task starts at
\* once when no task runs under the key, and waits otherwise.
SessionFetch ==
  \E i \in SessionIds :
    /\ sessions[i].pc = "fetch"
    /\ LockKey(sessions[i]) \in DOMAIN lockQueue
    /\ lockQueue' = [lockQueue EXCEPT ![LockKey(sessions[i])] = Append(@, i)]
    /\ sessions' =
         [sessions EXCEPT ![i] =
            [@ EXCEPT !.key = LockKey(sessions[i]),
                      !.pc = IF lockQueue[LockKey(sessions[i])] = <<>>
                             THEN "exists" ELSE "queued"]]
    /\ UNCHANGED dirs
    /\ ConcFrame

\* the task: await fs.exists(cwd)
TaskExists ==
  \E i \in SessionIds :
    /\ sessions[i].pc = "exists"
    /\ sessions' =
         [sessions EXCEPT ![i] =
            [@ EXCEPT !.pc = IF sessions[i].cwd \in dirs THEN "pull" ELSE "clone"]]
    /\ UNCHANGED << lockQueue, dirs >>
    /\ ConcFrame

\* the sessions once the task of session i has ended: the task is taken off
\* its queue and the next task under the key starts
TaskEnded(i, ok) ==
  [j \in SessionIds |->
     IF j = i
     THEN IF ok THEN [sessions[j] EXCEPT !.pc = "done", !.fetched = TRUE]
          ELSE [sessions[j] EXCEPT !.pc = "failed", !.err = "ProcessError"]
     ELSE IF /\ Len(lockQueue[sessions[i].key]) >= 2
             /\ lockQueue[sessions[i].key][2] = j
     THEN [sessions[j] EXCEPT !.pc = "exists"]
     ELSE sessions[j]]

\* the task: await spawnGit(['pull'], {cwd}); this.fetched = true
TaskPull ==
  \E i \in SessionIds, ok \in BOOLEAN :
    /\ sessions[i].pc = "pull"
    /\ sessions' = TaskEnded(i, ok)
    /\ lockQueue' = [lockQueue EXCEPT ![sessions[i].key] = Tail(@)]
    /\ UNCHANGED dirs
    /\ ConcFrame

\* the task: await spawnGit(['clone', gitUrl.repository, cwd]); this.fetched = true.
\* git clone refuses a directory that exists by now.
TaskClone ==
  \E i \in SessionIds, ok \in BOOLEAN :
    /\ sessions[i].pc = "clone"
    /\ ok => sessions[i].cwd \notin dirs
    /\ sessions' = TaskEnded(i, ok)
    /\ lockQueue' = [lockQueue EXCEPT ![sessions[i].key] = Tail(@)]
    /\ dirs' = IF ok THEN dirs \cup {sessions[i].cwd} ELSE dirs
    /\ ConcFrame

ConcNext ==
  \/ SessionSecure
  \/ SessionSetRefRemote
  \/ SessionFetch
  \/ TaskExists
  \/ TaskPull
  \/ TaskClone

ConcSpec == ConcInit /\ [][ConcNext]_vars

(***************************************************************************)
(* hasArchiveCapability called several times in one process, one call      *)
(* after the other or side by side.  The calls share supportsArchiveCache; *)
(* a call is two steps, before and after the await of the probe.           *)
(***************************************************************************)

MaxCalls == 3

CallIds == 1..MaxCalls

\* two repositories of one host, the seeded host, a URL that is not ssh:
CapabilityUrls ==
  { GitUrl("ssh:", "gitlab.tld", "ssh://git@gitlab.tld:10202/p/m.git"),
    GitUrl("ssh:", "gitlab.tld", "ssh://git@gitlab.tld:10202/p/n.git"),
    GitUrl("ssh:", "github.com", "ssh://git@github.com/yarnpkg/yarn"),
    GitUrl("https:", "github.com", "https://github.com/yarnpkg/yarn.git"),
    GitUrl("file:", NULL, "/srv/repos/m.git") }

\* what the probe fails with: the message of git, or the empty message of
\* the Error thrown when git archive exits 0
ProbeMessages == FailureMessages \cup { "" }

\* a call that has not started; hit: the hostname was found in the cache;
\* spawned: the call has run the probe
NewCapabilityCall(target) ==
  [ref |-> target, pc |-> "idle", hit |-> FALSE, spawned |-> FALSE, answer |-> FALSE]

CapabilityInit ==
  /\ NoSession
  /\ NoResolver
  /\ NoConcurrency
  /\ call = NoCall
  /\ returned = NotReturned
  /\ sequential \in BOOLEAN
  /\ capabilityCalls \in [CallIds -> { NewCapabilityCall(u) : u \in CapabilityUrls }]
  /\ cacheWrites = <<>>

CapabilityFrame ==
  UNCHANGED << gitUrl, hash, ref, supportsArchive, fetched, cwd, pc, err, errArgs, refs,
               resolvedResult, shaToResolve, cwdExists, remote, url0, version, file,
               callVars, resolverVars, concVars, sequential >>

\* mutant of InCache: only the seeded hostname is found
InCacheSeededOnly(hostname, cache) == hostname = "github.com"

\* hostname in supportsArchiveCache
InCache(hostname, cache) == hostname \in DOMAIN cache

\* the call up to its return or to the await of the probe
CapabilityCalled(c, cache) ==
  IF c.ref.protocol # "ssh:" \/ c.ref.hostname = NULL
  THEN [c EXCEPT !.pc = "returned", !.answer = FALSE]
  ELSE IF InCache(c.ref.hostname, cache)
  THEN [c EXCEPT !.pc = "returned", !.hit = TRUE, !.answer = cache[c.ref.hostname]]
  ELSE [c EXCEPT !.pc = "probing", !.spawned = TRUE]

\* hasArchiveCapability(ref) is called: the protocol and the hostname, the
\* cache, then spawnGit(['archive', '--remote=...', 'HEAD', Date.now() + ''])
CapabilityCall ==
  \E k \in CallIds :
    /\ capabilityCalls[k].pc = "idle"
    /\ sequential => \A j \in CallIds : capabilityCalls[j].pc # "probing"
    /\ capabilityCalls' =
         [capabilityCalls EXCEPT ![k] = CapabilityCalled(capabilityCalls[k], supportsArchiveCache)]
    /\ cmds' = IF capabilityCalls'[k].spawned
               THEN Append(cmds, ArchiveProbe(capabilityCalls[k].ref, FALSE))
               ELSE cmds
    /\ UNCHANGED << supportsArchiveCache, cacheWrites >>
    /\ CapabilityFrame

\* mutant of CacheWritten: an entry that is there is kept
CacheWrittenOnce(cache, hostname, supports) ==
  [h \in DOMAIN cache \cup {hostname} |->
     IF h \in DOMAIN cache THEN cache[h] ELSE supports]

\* supportsArchiveCache[hostname] = supports
CacheWritten(cache, hostname, supports) ==
  [h \in DOMAIN cache \cup {hostname} |-> IF h = hostname THEN supports ELSE cache[h]]

\* the catch block: supports = err.message.indexOf('did not match any files') >= 0;
\* return (supportsArchiveCache[hostname] = supports)
CapabilityProbeEnds ==
  \E k \in CallIds, message \in ProbeMessages :
    /\ capabilityCalls[k].pc = "probing"
    /\ capabilityCalls' =
         [capabilityCalls EXCEPT ![k] =
            [capabilityCalls[k] EXCEPT
               !.pc = "returned",
               !.answer = Includes(message, "did not match any files")]]
    /\ supportsArchiveCache' =
         CacheWritten(supportsArchiveCache, capabilityCalls[k].ref.hostname,
                      Includes(message, "did not match any files"))
    /\ cacheWrites' =
         Append(cacheWrites,
                [call |-> k, hostname |-> capabilityCalls[k].ref.hostname,
                 supports |-> Includes(message, "did not match any files")])
    /\ UNCHANGED cmds
    /\ CapabilityFrame

CapabilityNext ==
  \/ CapabilityCall
  \/ CapabilityProbeEnds

CapabilitySpec == CapabilityInit /\ [][CapabilityNext]_vars

(***************************************************************************)
(* Properties.  The session keeps its history in cmds, and url0, version   *)
(* and remote keep the inputs, so that what an operation returned and what *)
(* it ran can be read from a state.                                        *)
(***************************************************************************)

\* a commit SHA: 5 to 40 characters among 0-9 and a-f
Pinned(h) ==
  /\ Len(h) >= MinShaLen /\ Len(h) <= MaxShaLen
  /\ \A i \in 1..Len(h) : CharAt(h, i) \in HexLower

\* the remote-existence probes run so far
Probes == SelectSeq(cmds, LAMBDA c : Len(c.args) = 3 /\ c.args[1] = "ls-remote" /\ c.args[2] = "-t")

\* u with the scheme of its repository, and its protocol, replaced by https:
HttpsForm(u) ==
  [protocol |-> "https:", hostname |-> u.hostname,
   repository |-> "https:" \o Slice(u.repository, IndexOf(u.repository, ":") + 1)]

\* C1: for every GitUrl and every hash that is a commit SHA, secureGitUrl
\* returns the GitUrl unchanged, raises no SecurityError and runs no probe.
C1_PinnedUrlUnchanged ==
  (pc # "init" /\ Pinned(version)) =>
    /\ gitUrl = url0
    /\ err # "SecurityError"
    /\ Probes = <<>>

C1_Witness ==
  /\ pc = "setRefRemote" /\ Pinned(version)
  /\ url0.protocol = "git:" /\ gitUrl = url0 /\ cmds = <<>>

\* C2: for a git: URL and a hash that is no commit SHA, secureGitUrl probes
\* the https: form once, returns the https: form when the probe succeeds and
\* raises SecurityError when it fails; it never returns a git: URL.
C2_GitUpgradedOrRefused ==
  (pc # "init" /\ url0.protocol = "git:" /\ ~Pinned(version)) =>
    /\ Len(Probes) = 1
    /\ Probes[1].args = <<"ls-remote", "-t", HttpsForm(url0).repository>>
    /\ IF Probes[1].ok
       THEN gitUrl = HttpsForm(url0) /\ err # "SecurityError"
       ELSE err = "SecurityError"
    /\ (err # "SecurityError" => gitUrl.protocol # "git:")

C2_Witness ==
  /\ pc = "setRefRemote" /\ url0.protocol = "git:" /\ ~Pinned(version)
  /\ gitUrl = GitUrl("https:", "github.com", "https://github.com/yarnpkg/yarn.git")

\* C3: for an http: URL and a hash that is no commit SHA, secureGitUrl returns
\* the https: form when the https: remote exists, else the http: URL unchanged
\* when the http: remote exists, and raises SecurityError when neither does.
C3_HttpUpgradedKeptOrRefused ==
  (pc # "init" /\ url0.protocol = "http:" /\ ~Pinned(version)) =>
    /\ Len(Probes) >= 1
    /\ Probes[1].args = <<"ls-remote", "-t", HttpsForm(url0).repository>>
    /\ IF Probes[1].ok
       THEN Len(Probes) = 1 /\ gitUrl = HttpsForm(url0) /\ err # "SecurityError"
       ELSE /\ Len(Probes) = 2
            /\ Probes[2].args = <<"ls-remote", "-t", url0.repository>>
            /\ IF Probes[2].ok
               THEN gitUrl = url0 /\ err # "SecurityError"
               ELSE err = "SecurityError"

C3_Witness ==
  /\ pc = "setRefRemote" /\ url0.protocol = "http:" /\ ~Pinned(version)
  /\ gitUrl = url0 /\ Len(cmds) = 2 /\ ~cmds[1].ok /\ cmds[2].ok

\* C4: for an https: URL and a hash that is no commit SHA, secureGitUrl returns
\* the URL unchanged when git ls-remote -t exits 0 and raises SecurityError
\* when it fails; an ssh: or file: URL is returned unchanged without a probe.
C4_HttpsVerifiedOthersUntouched ==
  (pc # "init" /\ ~Pinned(version)) =>
    /\ url0.protocol = "https:" =>
         /\ Len(Probes) = 1
         /\ Probes[1].args = <<"ls-remote", "-t", url0.repository>>
         /\ IF Probes[1].ok
            THEN gitUrl = url0 /\ err # "SecurityError"
            ELSE err = "SecurityError"
    /\ url0.protocol \in {"ssh:", "file:"} =>
         /\ gitUrl = url0 /\ err # "SecurityError" /\ Probes = <<>>

C4_Witness ==
  /\ url0.protocol = "https:" /\ ~Pinned(version)
  /\ err = "SecurityError" /\ Len(cmds) = 1 /\ ~cmds[1].ok

\* C5: when secureGitUrl raises SecurityError inside init(), init() has failed
\* with it, every git command the session ever ran is one of the probes of
\* secureGitUrl, and hash, ref, supportsArchive and fetched are as constructed.
C5_RefusedRequestStops ==
  err = "SecurityError" =>
    /\ pc = "failed"
    /\ cmds = Probes /\ Len(cmds) <= 2
    /\ gitUrl = url0
    /\ hash = version /\ ref = version
    /\ supportsArchive = FALSE /\ fetched = FALSE

C5_Witness ==
  /\ err = "SecurityError" /\ pc = "failed"
  /\ url0.protocol = "http:" /\ Len(cmds) = 2

\* ---- the resolution ----

\* 5 to 40 hexadecimal characters in any letter case
ShaShaped(h) == Pinned(ToLowerCase(h))

\* only white space, or nothing
Blank(h) == \A i \in 1..Len(h) : CharAt(h, i) \in WhiteSpace

\* git ls-remote --tags --heads has answered and the table is parsed
Listed ==
  \E i \in 1..Len(cmds) :
    /\ Len(cmds[i].args) = 4 /\ cmds[i].args[2] = "--tags" /\ cmds[i].ok

\* setRef has its final answer: a ResolvedSha, or not found
Answered == resolvedResult.kind = "sha" \/ err = "MessageError"

\* resolveVersion answered with the default branch: the call is pending or has run
DefaultBranchAsked ==
  \/ resolvedResult.kind = "resolveDefaultBranch"
  \/ \E i \in 1..Len(cmds) : Len(cmds[i].args) = 4 /\ cmds[i].args[2] = "--symref"

Ran(name) == \E i \in 1..Len(cmds) : cmds[i].args[1] = name

\* the answer is the table entry named name
AnswerIsRef(name) ==
  /\ HasRef(refs, name)
  /\ resolvedResult = ResolvedSha(RefSha(refs, name), name)

\* the names under prefix in the table that are semver-valid and satisfy range
SatisfyingUnder(prefix, range) ==
  { i \in 1..Len(refs) :
      /\ StartsWith(refs[i].name, prefix)
      /\ SemverValid(Slice(refs[i].name, Len(prefix) + 1))
      /\ Satisfies(Slice(refs[i].name, Len(prefix) + 1), range) }

\* C6 as stated: whenever the table holds both refs/tags/X and refs/heads/X,
\* resolving X answers the tag, and resolving refs/heads/X answers the branch.
C6_Original ==
  /\ ( /\ HasRef(refs, REF_TAG_PREFIX \o version)
       /\ HasRef(refs, REF_BRANCH_PREFIX \o version)
       /\ Answered )
     => AnswerIsRef(REF_TAG_PREFIX \o version)
  /\ ( /\ StartsWith(version, REF_BRANCH_PREFIX)
       /\ HasRef(refs, version)
       /\ HasRef(refs, REF_TAG_PREFIX \o Slice(version, Len(REF_BRANCH_PREFIX) + 1))
       /\ Answered )
     => AnswerIsRef(version)

\* C6 amended: whenever the table holds both refs/tags/X and refs/heads/X, X is
\* not 5-40 hexadecimal characters (in any letter case) and X is not itself a
\* key of the table, resolving X answers {sha: refs[refs/tags/X], ref:
\* refs/tags/X}; resolving the full name refs/heads/X answers the branch.
C6_TagBeatsBranch ==
  /\ ( /\ HasRef(refs, REF_TAG_PREFIX \o version)
       /\ HasRef(refs, REF_BRANCH_PREFIX \o version)
       /\ ~ShaShaped(version)
       /\ ~HasRef(refs, version)
       /\ Answered )
     => AnswerIsRef(REF_TAG_PREFIX \o version)
  /\ ( /\ StartsWith(version, REF_BRANCH_PREFIX)
       /\ HasRef(refs, version)
       /\ HasRef(refs, REF_TAG_PREFIX \o Slice(version, Len(REF_BRANCH_PREFIX) + 1))
       /\ Answered )
     => AnswerIsRef(version)

C6_Witness ==
  /\ version = "both" /\ pc = "capability"
  /\ HasRef(refs, "refs/heads/both")
  /\ resolvedResult.ref = "refs/tags/both"

\* C7 as stated: when the table has the branch refs/heads/V and a semver-valid
\* tag that satisfies V as a range, resolving V answers the branch.
C7_Original ==
  ( /\ HasRef(refs, REF_BRANCH_PREFIX \o version)
    /\ SatisfyingUnder(REF_TAG_PREFIX, version) # {}
    /\ Answered )
  => AnswerIsRef(REF_BRANCH_PREFIX \o version)

\* C7 amended: when the table has the branch refs/heads/V and a semver-valid
\* tag that satisfies V as a range, and it has no tag refs/tags/V, V is not
\* 5-40 hexadecimal characters and V is not itself a key of the table,
\* resolving V answers {sha: refs[refs/heads/V], ref: refs/heads/V}.
C7_ExactBranchBeatsSemver ==
  ( /\ HasRef(refs, REF_BRANCH_PREFIX \o version)
    /\ SatisfyingUnder(REF_TAG_PREFIX, version) # {}
    /\ ~HasRef(refs, REF_TAG_PREFIX \o version)
    /\ ~ShaShaped(version)
    /\ ~HasRef(refs, version)
    /\ Answered )
  => AnswerIsRef(REF_BRANCH_PREFIX \o version)

C7_Witness ==
  /\ version = "1.1" /\ pc = "capability"
  /\ HasRef(refs, "refs/tags/v1.1.0")
  /\ resolvedResult.ref = "refs/heads/1.1"

\* C8: for a version of 5-40 hexadecimal characters in any letter case whose
\* lower case is a prefix of the SHA of some ref of the table, resolving answers
\* {sha, ref} with ref in the table, sha = refs[ref] and sha starting with the
\* lower-cased version; no rev-list is run, and no clone or pull by then.
C8_ShaPrefixOfListedRef ==
  ( /\ ShaShaped(version)
    /\ \E i \in 1..Len(refs) : StartsWith(refs[i].sha, ToLowerCase(version)) )
  => /\ resolvedResult.kind = "sha"
     /\ AnswerIsRef(resolvedResult.ref)
     /\ StartsWith(resolvedResult.sha, ToLowerCase(version))
     /\ ~Ran("rev-list")
     /\ pc = "capability" => ~Ran("clone") /\ ~Ran("pull") /\ ~fetched

C8_Witness ==
  /\ version = "EAA56CB" /\ pc = "capability"
  /\ resolvedResult = ResolvedSha("eaa56cb34863810060abbec2d755ba51508afedc", "refs/heads/1.1")

\* C9: for every table and every version that is empty once trimmed, the
\* resolution answers the default branch (resolveDefaultBranch is called and
\* its answer is the result) and is never not-found.
C9_BlankIsDefaultBranch ==
  (Blank(version) /\ Listed) =>
    /\ err # "MessageError"
    /\ DefaultBranchAsked
    /\ ~Ran("rev-list")
    /\ resolvedResult.kind = "sha" =>
         /\ resolvedResult.sha \in {HEAD_SHA, ""}
         /\ resolvedResult.ref \in {"refs/heads/master", NULL}

C9_Witness ==
  /\ version = " " /\ Len(refs) = MaxRefs
  /\ resolvedResult = ResolvedSha(HEAD_SHA, "refs/heads/master")

\* C10 as stated: resolving "*" answers a tag of the table when the table has a
\* semver-valid tag, and the default branch otherwise.
C10_Original ==
  (version = "*" /\ Listed) =>
    IF \E i \in 1..Len(refs) :
         /\ StartsWith(refs[i].name, REF_TAG_PREFIX)
         /\ SemverValid(Slice(refs[i].name, Len(REF_TAG_PREFIX) + 1))
    THEN /\ resolvedResult.kind = "sha"
         /\ StartsWith(resolvedResult.ref, REF_TAG_PREFIX)
         /\ AnswerIsRef(resolvedResult.ref)
    ELSE DefaultBranchAsked

\* C10 amended: resolving "*" answers a tag of the table when a semver-valid
\* tag satisfies "*" (a prerelease does not); otherwise a branch of the table
\* when a semver-valid branch satisfies "*"; otherwise the default branch.
C10_WildcardTagThenBranchThenDefault ==
  (version = "*" /\ Listed) =>
    IF SatisfyingUnder(REF_TAG_PREFIX, "*") # {}
    THEN /\ resolvedResult.ref \in { refs[i].name : i \in SatisfyingUnder(REF_TAG_PREFIX, "*") }
         /\ AnswerIsRef(resolvedResult.ref)
         /\ ~DefaultBranchAsked
    ELSE IF SatisfyingUnder(REF_BRANCH_PREFIX, "*") # {}
    THEN /\ resolvedResult.ref \in { refs[i].name : i \in SatisfyingUnder(REF_BRANCH_PREFIX, "*") }
         /\ AnswerIsRef(resolvedResult.ref)
         /\ ~DefaultBranchAsked
    ELSE DefaultBranchAsked

C10_Witness ==
  /\ version = "*" /\ pc = "capability"
  /\ HasRef(refs, "refs/tags/v2.0.0-pre")
  /\ resolvedResult.ref = "refs/heads/1.0.0"

\* C11: when no strategy matches the version against the table, resolveVersion
\* answers null and setRef raises the error that names the version, the known
\* ref names and the repository; hash and ref stay as they were.
C11_NotFoundNamesVersionRefsRepository ==
  /\ (Listed /\ resolvedResult = ResNull) <=> err = "MessageError"
  /\ err = "MessageError" =>
       /\ pc = "failed"
       /\ Len(errArgs) = 3
       /\ errArgs[1] = version
       /\ errArgs[2] = Join([i \in 1..Len(parseRefs(remote)) |-> parseRefs(remote)[i].name], ",")
       /\ errArgs[3] = gitUrl.repository
       /\ hash = version /\ ref = version

C11_Witness ==
  /\ version = "unknown" /\ err = "MessageError"
  /\ errArgs = << "unknown", "refs/heads/main,refs/tags/both", "/srv/repos/m.git" >>

\* a full commit id as git prints it: 40 lowercase hexadecimal characters
FullSha(h) == Len(h) = MaxShaLen /\ \A i \in 1..Len(h) : CharAt(h, i) \in HexLower

\* C12: once init() has returned, hash is a full 40-hexadecimal-character commit
\* SHA, whatever kind of version token was asked for.
C12_HashIsFullShaAfterInit == pc = "done" => FullSha(hash)

\* init() has returned for a blank or wildcard version on a remote whose HEAD
\* names no commit: both ls-remote runs print nothing and hash is left empty
C12_EmptyHashAfterInit ==
  /\ pc = "done" /\ hash = "" /\ fetched
  /\ version \in {"", "*"}

\* the indices of the lines of a listing that name the ref name
LinesOf(lines, name) ==
  { i \in 1..Len(lines) : gitRefLineRegex(lines[i]).name = name }

Last(S) == CHOOSE i \in S : \A j \in S : j <= i

\* the tags of a listing that have both their own line and a peeled line
PeeledTags(lines) ==
  { t \in { gitRefLineRegex(lines[i]).name : i \in 1..Len(lines) } :
      /\ StartsWith(t, REF_TAG_PREFIX)
      /\ ~EndsWith(t, "^{}")
      /\ LinesOf(lines, t \o "^{}") # {} }

ParseRefsReturned == call.fn = "parseRefs" /\ returned.done

\* C13 as stated: with both lines in the listing, in whatever order, parseRefs
\* maps the tag to the SHA of the peeled line and no key ends in ^{}.
C13_Original ==
  ParseRefsReturned =>
    /\ \A t \in PeeledTags(call.arg) : \A i \in LinesOf(call.arg, t \o "^{}") :
         RefSha(returned.value, t) = gitRefLineRegex(call.arg[i]).sha
    /\ \A i \in 1..Len(returned.value) : ~EndsWith(returned.value[i].name, "^{}")

\* C13: with both lines in the listing and the last peeled line after every
\* line of the tag itself, parseRefs maps the tag to the SHA of that peeled line;
\* no key of the result ends in ^{}.
C13_PeeledAfterTagOverrides ==
  ParseRefsReturned =>
    /\ \A t \in PeeledTags(call.arg) :
         Last(LinesOf(call.arg, t \o "^{}")) > Last(LinesOf(call.arg, t)) =>
           RefSha(returned.value, t) =
             gitRefLineRegex(call.arg[Last(LinesOf(call.arg, t \o "^{}"))]).sha
    /\ \A i \in 1..Len(returned.value) : ~EndsWith(returned.value[i].name, "^{}")

C13_Witness ==
  /\ ParseRefsReturned
  /\ call.arg = << RefLines[8], RefLines[9], RefLines[12] >>
  /\ RefSha(returned.value, "refs/tags/both") = "70e76d174b0c7d001d2cd608a16c94498496e92d"

\* the git command getFile ran, when it ran one
GetFileRun == cmds[Len(cmds)]

GotFile == pc = "gotFile"

\* C14: on the archive path getFile answers false exactly when git archive failed
\* with a message that contains "did not match any files", and rejects with every
\* other failure; on the clone path every failure of git show is answered false.
\* A file that is there is answered as a string.
C14_AbsentFileIsFalse ==
  GotFile =>
    IF supportsArchive
    THEN /\ GetFileRun.args[1] = "archive"
         /\ file.kind = "false" <=>
              (~GetFileRun.ok /\ Includes(file.message, "did not match any files"))
         /\ file.kind = "error" <=>
              (~GetFileRun.ok /\ ~Includes(file.message, "did not match any files"))
         /\ file.kind = "error" => file.value = file.message
         /\ file.kind = "string" <=> GetFileRun.ok
    ELSE IF fetched
    THEN /\ GetFileRun.args[1] = "show"
         /\ file.kind = "false" <=> ~GetFileRun.ok
         /\ file.kind = "string" <=> GetFileRun.ok
    ELSE file.kind = "error" /\ file.value = "Repo not fetched"

\* archive path: the file is not in the archive
C14_Witness ==
  /\ GotFile /\ supportsArchive
  /\ file = FileResult("false", FALSE, "fatal: pathspec 'package.json' did not match any files")

\* C15: with a lockfile entry of type git, resolve() returns that entry as it
\* is, constructs no session and runs no git command.
C15_LockedEntryReturnedUntouched ==
  locked # NoLock =>
    /\ cmds = <<>> /\ pc \in {"resolve", "resolved"}
    /\ gitUrl = GitUrl(NULL, NULL, NULL) /\ hash = NULL /\ cwd = NULL
    /\ pc = "resolved" => manifest = locked

C15_Witness ==
  /\ locked # NoLock /\ pc = "resolved" /\ manifest = locked
  /\ url = "git://github.com/yarnpkg/yarn.git"

\* resolve() has returned a manifest and there was no lockfile entry
ResolvedUnlocked == pc = "resolved" /\ locked = NoLock

\* C16: a manifest that resolve() returns without a lockfile entry, parsed from a
\* registry file or made up with version 0.0.0, has _uid and _remote.hash equal
\* to the commit init() returned, _remote.resolved = url#commit,
\* _remote.reference = url and _remote.type = "git".
C16_ManifestCarriesProvenance ==
  ResolvedUnlocked =>
    /\ manifest._uid = hash
    /\ manifest._remote.hash = hash
    /\ manifest._remote.resolved = url \o "#" \o hash
    /\ manifest._remote.reference = url
    /\ manifest._remote.type = "git"
    /\ file.kind = "false" \/ file.value = "" => manifest.version = "0.0.0"

\* the registry file holds provenance fields of its own, which are replaced
C16_Witness ==
  /\ ResolvedUnlocked
  /\ file.kind = "string" /\ JSONparse(file.value).value._uid = "stale"
  /\ manifest._uid = "8a41a314e23dc566a6b7e73c757a10d13e3320cf"
  /\ manifest._remote.resolved =
       "git://github.com/yarnpkg/yarn.git#8a41a314e23dc566a6b7e73c757a10d13e3320cf"

\* no registry file is found and the manifest is made up
C16_WitnessDefault ==
  /\ ResolvedUnlocked /\ file.kind = "false"
  /\ manifest.version = "0.0.0" /\ manifest._uid = hash

RecognizedSchemes == { "ssh:", "https:", "git:", "http:", "file:" }

\* npmUrlToGitUrl has returned or thrown for a specifier that isGitPattern accepts
NormalizedGitPattern ==
  call.fn = "npmUrlToGitUrl" /\ returned.done /\ isGitPattern(call.arg)

\* C17 as stated: for a specifier that isGitPattern accepts, npmUrlToGitUrl
\* raises no error and the protocol it returns is ssh:, https:, git:, http: or file:.
C17_Original ==
  NormalizedGitPattern =>
    /\ returned.value.error = ""
    /\ returned.value.url.protocol \in RecognizedSchemes

\* the specifier starts with one of the three hosted aliases
Aliased(pattern) == \E a \in HostedProtocols : StartsWith(pattern, a)

\* the scheme the specifier is written with, a leading git+ apart; file: for none
WrittenScheme(pattern) ==
  LET text == IF StartsWith(pattern, "git+") THEN Slice(pattern, 5) ELSE pattern
      n    == RunLen(text, ProtocolChars)
  IN IF n >= 1 /\ At(text, n + 1) = ":" THEN ToLowerCase(Mid(text, 1, n)) \o ":" ELSE "file:"

\* C17: for a specifier that isGitPattern accepts, npmUrlToGitUrl raises no error
\* but the invalid-fragment MessageError of a hosted alias; the protocol it
\* returns is ssh: for the scp-like and git@host forms, https: for the github
\* shorthand and the aliases, and otherwise the scheme the specifier is written
\* with, so it is a recognized scheme whenever that scheme is one.
C17_NormalizesOrRejectsAlias ==
  NormalizedGitPattern =>
    IF returned.value.error # ""
    THEN returned.value.error = "MessageError" /\ Aliased(call.arg)
    ELSE /\ returned.value.url.protocol =
              IF StartsWith(call.arg, "git+ssh://") /\ returned.value.url.repository
                                                       = Slice(call.arg, 11) THEN "ssh:"
              ELSE IF StartsWith(call.arg, "git@") THEN "ssh:"
              ELSE IF returned.value.hostedGit # NoHostedGit THEN "https:"
              ELSE WrittenScheme(call.arg)
         /\ (~Aliased(call.arg) /\ WrittenScheme(call.arg) \in RecognizedSchemes)
              => returned.value.url.protocol \in RecognizedSchemes

C17_Witness ==
  /\ NormalizedGitPattern
  /\ call.arg = "git+https://github.com/npm-opam/ocamlfind.git"
  /\ returned.value.url = GitUrl("https:", "github.com", "https://github.com/npm-opam/ocamlfind.git")

\* isGitPattern has answered for an http(s) URL on one of the four hosts whose
\* path does not end in .git
HostedUrlAnswered ==
  /\ call.fn = "isGitPattern" /\ returned.done
  /\ \E s \in HostedSchemes, h \in HostedHosts : StartsWith(call.arg, s \o h)
  /\ ~EndsWith(call.arg, GIT_EXTENSION)

\* the path of such a URL: what follows the host, up to the query
HostedPathOf(pattern) ==
  LET rest == Slice(pattern, IndexOf(pattern, ":") + 3)
      path == Slice(rest, RunLenNot(rest, {"/", "?"}) + 1)
  IN Mid(path, 1, RunLenNot(path, {"?"}))

\* C18: for an http(s) URL on github.com, gitlab.com, bitbucket.org or
\* bitbucket.com whose path does not end in .git, isGitPattern is true exactly
\* when the path has two non-empty segments.
C18_HostedUrlIsGitIffTwoSegments ==
  HostedUrlAnswered => (returned.value <=> Segments(HostedPathOf(call.arg)) = 2)

\* a repository of gitlab.com is not taken for a git pattern
C18_GitlabRepositoryRefused ==
  /\ HostedUrlAnswered
  /\ call.arg = "https://gitlab.com/user/repo"
  /\ returned.value = FALSE

(* ---- C19 ---- *)
SpawnReturned == call.fn = "spawn" /\ returned.done

PromptVariables == DOMAIN EnvDefaults

\* C19 as stated: every git subprocess gets GIT_ASKPASS "", GIT_TERMINAL_PROMPT
\* 0 and GIT_SSH_COMMAND "ssh -oBatchMode=yes", whatever the inherited
\* environment holds for the three variables.
C19_Original ==
  SpawnReturned =>
    \A v \in PromptVariables : returned.value.opts.env[v] = EnvDefaults[v]

\* C19, amended: each of the three variables has its default in the
\* subprocess environment unless the inherited environment holds the
\* variable, and then the subprocess gets the inherited value; opts cannot
\* change any of them.
C19_DefaultsUnlessInherited ==
  SpawnReturned =>
    \A v \in PromptVariables :
      returned.value.opts.env[v] =
        IF v \in DOMAIN call.arg.processEnv
          THEN call.arg.processEnv[v] ELSE EnvDefaults[v]

\* a spawn whose inherited environment sets one of the variables to another
\* value and leaves another one out
C19_Witness ==
  /\ SpawnReturned
  /\ "GIT_SSH_COMMAND" \in DOMAIN call.arg.processEnv
  /\ returned.value.opts.env["GIT_SSH_COMMAND"] = "ssh -i /home/ci/key"
  /\ "GIT_ASKPASS" \notin DOMAIN call.arg.processEnv
  /\ returned.value.opts.env["GIT_ASKPASS"] = ""
  /\ "env" \in DOMAIN call.arg.opts

(* ---- C20 ---- *)
\* session i is inside the task of fetch(): between the existence check of
\* cwd and the end of git clone or git pull
InTask(i) == sessions[i].pc \in {"exists", "pull", "clone"}

\* session i has pushed its task
Pushed(i) == sessions[i].key # ""

\* C20: two concurrent sessions with the same cwd take the task of fetch()
\* under the same lock key and are never inside it at the same time, also
\* after init() has replaced the gitUrl by the secured one.
C20_SameCwdSameKeyNoOverlap ==
  \A i, j \in SessionIds :
    i # j /\ sessions[i].cwd = sessions[j].cwd =>
      /\ ~(InTask(i) /\ InTask(j))
      /\ Pushed(i) /\ Pushed(j) => sessions[i].key = sessions[j].key

\* two sessions built on one git: URL, one with a commit and one without,
\* are inside the task at the same time, under two keys
C20_OverlapUnderTwoKeys ==
  \E i, j \in SessionIds :
    /\ i # j /\ sessions[i].cwd = sessions[j].cwd
    /\ InTask(i) /\ InTask(j)
    /\ sessions[i].key = "https://github.com/yarnpkg/yarn.git"
    /\ sessions[j].key = "git://github.com/yarnpkg/yarn.git"

(* ---- C21 ---- *)
IsFetch(c) == c.args[1] \in {"clone", "pull"}

IsArchiveProbe(c) == Len(c.args) = 4 /\ c.args[1] = "archive" /\ c.args[3] = "HEAD"

\* the step of init() a command belongs to: 1 secure the URL, 2 list the refs,
\* 3 resolve the version, 4 probe the archive capability
StepOf(c) ==
  IF c.args[1] = "ls-remote" /\ c.args[2] = "-t" THEN 1
  ELSE IF c.args[1] = "ls-remote" /\ c.args[2] = "--tags" THEN 2
  ELSE IF IsArchiveProbe(c) THEN 4
  ELSE 3

\* command i is the fetch() that init() itself runs, its last step
InitFetchAt(i) ==
  /\ i = Len(cmds) /\ IsFetch(cmds[i])
  /\ \/ pc = "done" /\ cmds[i].ok
     \/ pc = "failed" /\ err = "ProcessError"

StepAt(i) == IF InitFetchAt(i) THEN 5 ELSE StepOf(cmds[i])

Steps(n) == { i \in 1..Len(cmds) : StepAt(i) = n }

\* init() has returned and getFile, archive or clone has been called
AfterInit == pc \in {"gotFile", "archived", "cloned"}

\* what hasArchiveCapability answers for the session's URL
Capable ==
  /\ gitUrl.protocol = "ssh:" /\ gitUrl.hostname # NULL
  /\ gitUrl.hostname \in DOMAIN supportsArchiveCache
  /\ supportsArchiveCache[gitUrl.hostname]

\* C21: init() runs its steps in the order secure the URL, list the refs,
\* resolve the version, then probe or fetch; the capability probe runs only
\* with a non-empty ref, and init() itself fetches exactly when the ref is
\* empty or the capability is answered false; a step starts when the one
\* before it has ended.
C21_InitStepsInOrder ==
  ~AfterInit =>
    /\ \A i, j \in 1..Len(cmds) : i < j => StepAt(i) <= StepAt(j)
    /\ Cardinality(Steps(2)) <= 1 /\ Cardinality(Steps(4)) <= 1
    /\ pc = "init" => cmds = <<>>
    /\ pc = "setRefRemote" => Steps(1) = 1..Len(cmds)
    /\ pc \in {"resolveCommit", "resolveDefaultBranch", "capability"} =>
         Cardinality(Steps(2)) = 1 /\ Steps(4) = {} /\ Steps(5) = {}
    /\ Steps(4) # {} => ref # ""
    /\ pc = "fetch" => (ref = "" \/ ~Capable) /\ Steps(5) = {}
    /\ pc = "done" =>
         /\ Steps(5) # {} <=> (ref = "" \/ ~Capable)
         /\ Steps(5) # {} <=> ~supportsArchive
         /\ Cardinality(Steps(2)) = 1

\* init() has fetched, after a resolveCommit that fetched too
C21_Witness ==
  /\ pc = "done" /\ Steps(5) # {} /\ Steps(2) # {}
  /\ \E i \in Steps(3) : IsFetch(cmds[i])

\* init() has probed with a ref and not fetched
C21_WitnessArchive ==
  /\ pc = "done" /\ Steps(4) # {} /\ Steps(5) = {} /\ supportsArchive /\ ref # ""

(* ---- C22 ---- *)
\* C22: in every state of a session, supportsArchive true implies that the
\* protocol of gitUrl is ssh: and that its hostname is not null.
C22_ArchiveOnlyOverSsh ==
  supportsArchive = TRUE => gitUrl.protocol = "ssh:" /\ gitUrl.hostname # NULL

\* a session that init() has left on the archive path
C22_Witness ==
  /\ supportsArchive = TRUE /\ pc = "done"
  /\ gitUrl = GitUrl("ssh:", "gitlab.tld", "ssh://git@gitlab.tld:10202/p/m.git")

(* ---- C23 ---- *)
\* the command that getFile, archive or clone ran
LastRun == cmds[Len(cmds)]

\* a clone or a pull of cwd has completed before command i
FetchedBefore(i) ==
  \E k \in 1..(i - 1) :
    /\ cmds[k].ok /\ IsFetch(cmds[k])
    /\ cmds[k].args[1] = "clone" => cmds[k].args[3] = cwd
    /\ cmds[k].args[1] = "pull" => cmds[k].cwd = cwd

\* C23: once init() has returned, supportsArchive or fetched is true; a
\* getFile, archive or clone that follows does not fail the "Repo not
\* fetched" assertion, and when it reads cwd a clone or a pull of cwd has
\* completed before.
C23_ReadyAfterInit ==
  /\ pc = "done" => supportsArchive \/ fetched
  /\ AfterInit =>
       /\ supportsArchive \/ fetched
       /\ file.kind = "error" => file.value # "Repo not fetched"
       /\ ~supportsArchive =>
            /\ LastRun.cwd = cwd /\ cwdExists
            /\ FetchedBefore(Len(cmds))

\* a file read from the clone that init() made
C23_Witness ==
  /\ pc = "gotFile" /\ ~supportsArchive /\ fetched
  /\ LastRun.args[1] = "show" /\ LastRun.ok
  /\ FetchedBefore(Len(cmds))

(* ---- C24 ---- *)
\* command k is a fetch() of the session that has completed
FetchCompletedAt(k) == IsFetch(cmds[k]) /\ cmds[k].ok

\* C24 as stated: once a fetch() of the session has completed, a later fetch()
\* of the session runs no git command.
C24_Original ==
  \A k, j \in 1..Len(cmds) : k < j /\ FetchCompletedAt(k) => ~IsFetch(cmds[j])

\* C24, amended: once a fetch() of the session has completed and cwd exists,
\* a later fetch() of the session runs git pull in cwd and never git clone;
\* fetched stays true.
C24_LaterFetchPulls ==
  /\ \A k, j \in 1..Len(cmds) :
       k < j /\ FetchCompletedAt(k) /\ IsFetch(cmds[j]) =>
         cmds[j].args = <<"pull">> /\ cmds[j].cwd = cwd
  /\ (\E k \in 1..Len(cmds) : FetchCompletedAt(k)) => fetched /\ cwdExists

\* resolveCommit has cloned, and the fetch() of init() has pulled
C24_Witness ==
  /\ pc = "done" /\ Len(cmds) >= 3
  /\ \E k \in 1..(Len(cmds) - 2) :
       FetchCompletedAt(k) /\ cmds[k].args[1] = "clone" /\ cmds[k + 1].args[1] = "rev-list"
  /\ LastRun = Cmd(<<"pull">>, cwd, TRUE)

(* ---- C25 ---- *)
\* the calls that have run the probe for hostname h
ProbedFor(h) == { k \in CallIds : capabilityCalls[k].spawned /\ capabilityCalls[k].ref.hostname = h }

CapabilityHostnames == { u.hostname : u \in CapabilityUrls }

\* C25: when the calls of hasArchiveCapability follow one another, the probe
\* is run at most once per hostname; a call for a hostname that has a cache
\* entry, the seeded github.com included, returns the cached value and
\* spawns nothing.
C25_OneProbePerHostname ==
  sequential =>
    /\ \A h \in CapabilityHostnames : Cardinality(ProbedFor(h)) <= 1
    /\ ProbedFor("github.com") = {}
    /\ Len(cmds) = Cardinality({ k \in CallIds : capabilityCalls[k].spawned })
    /\ \A k \in CallIds :
         /\ capabilityCalls[k].hit => ~capabilityCalls[k].spawned
         /\ capabilityCalls[k].hit =>
              capabilityCalls[k].answer = supportsArchiveCache[capabilityCalls[k].ref.hostname]
         /\ capabilityCalls[k].spawned => IsArchiveProbe(cmds[Len(cmds)])

\* two calls for repositories of gitlab.tld, one after the other: the first
\* has probed, the second has answered from the cache
C25_Witness ==
  /\ sequential
  /\ \E k, j \in CallIds :
       /\ capabilityCalls[k].pc = "returned" /\ capabilityCalls[k].spawned
       /\ capabilityCalls[j].pc = "returned" /\ capabilityCalls[j].hit
       /\ capabilityCalls[k].ref.hostname = "gitlab.tld"
       /\ capabilityCalls[j].ref.hostname = "gitlab.tld"
       /\ capabilityCalls[j].ref # capabilityCalls[k].ref
       /\ capabilityCalls[j].answer = TRUE

(* ---- C26 ---- *)
\* the assignments to the cache entry of hostname h, by position
WritesOf(h) == { i \in 1..Len(cacheWrites) : cacheWrites[i].hostname = h }

\* C26 as stated: however the calls interleave, every probe of a hostname
\* computes the same value, and the cached value of a hostname does not
\* change once it is written.
C26_Original ==
  \A i, j \in 1..Len(cacheWrites) :
    cacheWrites[i].hostname = cacheWrites[j].hostname =>
      cacheWrites[i].supports = cacheWrites[j].supports

\* C26, amended: however the calls interleave, every call that finds no
\* entry for its hostname runs its own probe and writes the value that probe
\* computed; the cached value of a hostname is the value written last, and
\* the seeded entry is written by no call.
C26_LastWriteWins ==
  /\ \A h \in DOMAIN supportsArchiveCache :
       IF WritesOf(h) = {}
       THEN h = "github.com" /\ supportsArchiveCache[h] = FALSE
       ELSE supportsArchiveCache[h] = cacheWrites[Last(WritesOf(h))].supports
  /\ \A i \in 1..Len(cacheWrites) :
       /\ cacheWrites[i].hostname \in DOMAIN supportsArchiveCache
       /\ capabilityCalls[cacheWrites[i].call].spawned
       /\ capabilityCalls[cacheWrites[i].call].pc = "returned"
       /\ capabilityCalls[cacheWrites[i].call].answer = cacheWrites[i].supports
       /\ capabilityCalls[cacheWrites[i].call].ref.hostname = cacheWrites[i].hostname
  /\ \A k \in CallIds :
       capabilityCalls[k].pc = "returned" /\ capabilityCalls[k].spawned =>
         \E i \in 1..Len(cacheWrites) : cacheWrites[i].call = k

\* two probes of gitlab.tld side by side: the first wrote true, the second
\* wrote false over it
C26_Witness ==
  /\ ~sequential
  /\ \E i, j \in WritesOf("gitlab.tld") :
       i < j /\ cacheWrites[i].supports /\ ~cacheWrites[j].supports
  /\ supportsArchiveCache["gitlab.tld"] = FALSE

(* ---- C27 ---- *)
\* the position of git ls-remote --tags --heads in the history
ListingAt ==
  CHOOSE i \in 1..Len(cmds) : Len(cmds[i].args) = 4 /\ cmds[i].args[2] = "--tags"

\* the version is commit-shaped and is a prefix of no SHA of the table
UnlistedCommit ==
  /\ ShaShaped(version) /\ Listed
  /\ \A i \in 1..Len(refs) : ~StartsWith(refs[i].sha, ToLowerCase(version))

\* resolveCommit has run: its fetch() follows the listing
ResolveCommitRan == Len(cmds) > ListingAt

\* resolveCommit has answered a commit: the fetch and git rev-list succeeded
ResolveCommitFound ==
  /\ Len(cmds) >= ListingAt + 2
  /\ cmds[ListingAt + 1].ok
  /\ cmds[ListingAt + 2].args[1] = "rev-list" /\ cmds[ListingAt + 2].ok

RemainingSteps ==
  << "tryVersionAsFullRef", "tryVersionAsTagName", "tryVersionAsBranchName",
     "tryVersionAsSemverRange" >>

\* C27: a commit-shaped version that is a prefix of no listed SHA is handed
\* to resolveCommit, which fetches and answers the full 40-hex SHA with no
\* ref; when the fetch or git rev-list fails, resolveCommit answers null, no
\* error is raised, and the resolution goes on with the full-ref, tag-name,
\* branch-name and semver strategies.
C27_UnlistedCommitResolvedOrPassedOn ==
  UnlistedCommit =>
    /\ pc = "resolveCommit" =>
         /\ resolvedResult = CallResolveCommit(ToLowerCase(version))
         /\ shaToResolve = ToLowerCase(version)
         /\ ~ResolveCommitRan
    /\ pc # "resolveCommit" =>
         /\ ResolveCommitRan
         /\ IsFetch(cmds[ListingAt + 1]) /\ Steps(1) \cup {ListingAt} = 1..ListingAt
         /\ IF ResolveCommitFound
            THEN /\ resolvedResult.kind = "sha" /\ FullSha(resolvedResult.sha)
                 /\ resolvedResult.ref = NULL
                 /\ cmds[ListingAt + 2].args[6] = ToLowerCase(version)
                 /\ cmds[ListingAt + 2].cwd = cwd
                 /\ hash = resolvedResult.sha /\ ref = ""
            ELSE /\ resolvedResult = resolveVersionIn(RemainingSteps, version, refs)
                 /\ resolvedResult.kind = "null" <=> err = "MessageError"
                 /\ err = "ProcessError" => resolvedResult.kind = "sha"

\* the clone failed, and the version was then found as a tag name
C27_Witness ==
  /\ version = "abcde" /\ UnlistedCommit /\ pc = "capability"
  /\ ~cmds[ListingAt + 1].ok /\ ~Ran("rev-list")
  /\ resolvedResult.ref = "refs/tags/abcde"

\* the clone and git rev-list succeeded
C27_WitnessFound ==
  /\ UnlistedCommit /\ ResolveCommitFound /\ pc = "capability"
  /\ FullSha(hash) /\ StartsWith(hash, ToLowerCase(version))

(* ---- C28 ---- *)
IsSymref(c) == c.args = <<"ls-remote", "--symref", gitUrl.repository, "HEAD">>

IsHeadOnly(c) == c.args = <<"ls-remote", gitUrl.repository, "HEAD">>

SymrefRuns == { i \in 1..Len(cmds) : IsSymref(cmds[i]) }

HeadOnlyRuns == { i \in 1..Len(cmds) : IsHeadOnly(cmds[i]) }

\* resolveDefaultBranch() has been called and has returned or thrown
DefaultBranchEnded == DefaultBranchAsked /\ pc # "resolveDefaultBranch"

\* C28: resolveDefaultBranch runs git ls-remote --symref <repo> HEAD first and
\* answers {sha, ref} from its two lines; when that attempt fails it runs git
\* ls-remote <repo> HEAD exactly once and answers the SHA with no ref; when
\* the second run fails the error is thrown and nothing is run after it.
C28_SymrefThenHeadOnce ==
  /\ Cardinality(SymrefRuns) <= 1 /\ Cardinality(HeadOnlyRuns) <= 1
  /\ SymrefRuns # {} <=> DefaultBranchEnded
  /\ \A j \in HeadOnlyRuns : j - 1 \in SymrefRuns
  /\ \A i \in SymrefRuns :
       /\ ~cmds[i].ok => i + 1 \in HeadOnlyRuns
       /\ i + 1 \notin HeadOnlyRuns =>
            /\ resolvedResult = ResolvedSha(HEAD_SHA, "refs/heads/master")
            /\ hash = HEAD_SHA /\ ref = "refs/heads/master"
       /\ i + 1 \in HeadOnlyRuns =>
            IF cmds[i + 1].ok
            THEN /\ resolvedResult.kind = "sha" /\ resolvedResult.ref = NULL
                 /\ resolvedResult.sha \in {HEAD_SHA, ""}
                 /\ hash = resolvedResult.sha /\ ref = ""
            ELSE /\ pc = "failed" /\ err = "ProcessError"
                 /\ Len(cmds) = i + 1
                 /\ resolvedResult.kind = "resolveDefaultBranch"

\* the first run failed and the second answered the SHA
C28_Witness ==
  /\ \E i \in SymrefRuns : ~cmds[i].ok /\ cmds[i + 1].ok
  /\ resolvedResult = ResolvedSha(HEAD_SHA, NULL) /\ pc = "done"

\* both runs failed
C28_WitnessThrown ==
  /\ \E i \in SymrefRuns : ~cmds[i].ok /\ ~cmds[i + 1].ok
  /\ pc = "failed"

\* the first run answered its two lines
C28_WitnessSymref ==
  /\ SymrefRuns # {} /\ HeadOnlyRuns = {} /\ pc = "done"

(* ---- C29 ---- *)
\* the git command of getFile(filename) on this session
IsAskFor(c, filename) ==
  \/ c.args = <<"show", hash \o ":" \o filename>>
  \/ c.args = <<"archive", "--remote=" \o gitUrl.repository, ref, filename>>

IsAsk(c) == \E i \in 1..Len(Registries) : IsAskFor(c, RegistryFilename(Registries[i]))

\* the commands of the getFile calls of resolve(), in order
Asks == SelectSeq(cmds, IsAsk)

\* the position in Asks of the first file git has printed, 0 when there is none
FirstFound ==
  IF \E k \in 1..Len(Asks) : Asks[k].ok
  THEN CHOOSE k \in 1..Len(Asks) : Asks[k].ok /\ \A j \in 1..(k - 1) : ~Asks[j].ok
  ELSE 0

\* getFile is called once init() has returned, for the file of this.registry
\* first and then for the file of each other registry, each at most once
C29_AsksInOrderAfterInit ==
  /\ Len(Asks) = Len(RegistryOrder(registry)) - Len(toTry)
  /\ \A k \in 1..Len(Asks) :
       IsAskFor(Asks[k], RegistryFilename(RegistryOrder(registry)[k]))
  /\ \A k \in 2..Len(Asks) : RegistryOrder(registry)[k] # registry
  /\ \A i \in 1..Len(cmds) : IsAsk(cmds[i]) => \A j \in i..Len(cmds) : IsAsk(cmds[j])
  /\ Asks # <<>> =>
       /\ pc \in {"done", "resolved", "failed"}
       /\ supportsArchive \/ fetched
       /\ supportsArchive \/ \E i \in 1..Len(cmds) : IsFetch(cmds[i]) /\ cmds[i].ok

\* C29: resolve() calls getFile only after init() has completed, for the
\* file of the preferred registry first and then for each other registry at
\* most once; it returns the manifest of the first registry whose file is
\* found, and makes up the minimal manifest only when no file was found for
\* any registry.
C29_FirstFoundFileIsReturned ==
  /\ C29_AsksInOrderAfterInit
  /\ ResolvedUnlocked =>
       /\ FirstFound # 0 =>
            /\ manifest._remote.registry = RegistryOrder(registry)[FirstFound]
            /\ manifest # defaultManifest(url, hash)
       /\ manifest = defaultManifest(url, hash) => FirstFound = 0

\* the file of the preferred registry is there and empty, no other file is
\* there, and resolve() returns the made-up manifest
C29_EmptyFileSkipped ==
  /\ ResolvedUnlocked /\ Len(Asks) = 2
  /\ Asks[1].ok /\ ~Asks[2].ok
  /\ manifest = defaultManifest(url, hash)

(* ---- C30 ---- *)
\* the repositories of the session: the one it was built on, its https: form
\* and the one secureGitUrl answered
SessionRepositories ==
  { url0.repository, HttpsForm(url0).repository, gitUrl.repository }

RegistryFilenames == { RegistryFilename(Registries[i]) : i \in 1..Len(Registries) }

\* c runs without a working directory
NoCwd(c) == c.cwd = ""

\* c runs in the working directory of the session
InCwd(c) == c.cwd = cwd /\ cwd # ""

\* the argument vectors the session starts git with
ListedVector(c) ==
  \/ c.args = <<"clone", gitUrl.repository, cwd>> /\ NoCwd(c)
  \/ c.args = <<"pull">> /\ InCwd(c)
  \/ \E r \in SessionRepositories : c.args = <<"ls-remote", "-t", r>> /\ NoCwd(c)
  \/ c.args = <<"ls-remote", "--tags", "--heads", gitUrl.repository>> /\ NoCwd(c)
  \/ c.args = <<"ls-remote", "--symref", gitUrl.repository, "HEAD">> /\ NoCwd(c)
  \/ c.args = <<"ls-remote", gitUrl.repository, "HEAD">> /\ NoCwd(c)
  \/ c.args = <<"archive", "--remote=" \o gitUrl.repository, ref>> /\ NoCwd(c)
  \/ \E f \in RegistryFilenames :
       c.args = <<"archive", "--remote=" \o gitUrl.repository, ref, f>> /\ NoCwd(c)
  \/ c.args = <<"archive", "--remote=" \o gitUrl.repository, "HEAD", "<now>">> /\ NoCwd(c)
  \/ c.args = <<"archive", hash>> /\ InCwd(c)
  \/ c.args = <<"rev-list", "-n", "1", "--no-abbrev-commit", "--format=oneline",
                ToLowerCase(version)>> /\ InCwd(c)
  \/ \E f \in RegistryFilenames : c.args = <<"show", hash \o ":" \o f>> /\ InCwd(c)

\* C30: every git subprocess of a session, of secureGitUrl and of
\* hasArchiveCapability is started with one of the listed argument vectors:
\* clone, pull, the four ls-remote forms, archive on the remote, and in cwd
\* archive, rev-list and show; a command that has a working directory has
\* the cwd of the session.
C30_OnlyListedVectors ==
  \A i \in 1..Len(cmds) :
    /\ ListedVector(cmds[i])
    /\ cmds[i].cwd \in {"", cwd}

\* the session resolved a commit in its clone and then archived the clone
C30_Witness ==
  /\ pc = "archived" /\ Ran("rev-list") /\ Ran("ls-remote")
  /\ LastRun.args = <<"archive", hash>> /\ LastRun.cwd = cwd

\* the session probed the remote and asked it for a file
C30_WitnessRemote ==
  /\ pc = "gotFile" /\ \E i \in 1..Len(cmds) : IsArchiveProbe(cmds[i])
  /\ LastRun.args = <<"archive", "--remote=" \o gitUrl.repository, ref, "package.json">>

====
